---- MODULE Spec2Model ----
(***************************************************************************)
(* The metrics and segmentation pipeline of gpx-poster                     *)
(* (src/src/utils/dataProcessor.ts): processActivity and the functions it  *)
(* calls, as a state machine that walks through processActivity's          *)
(* statements, plus a second machine that applies percentile to inputs of  *)
(* its own.                                                                *)
(*                                                                         *)
(* Numbers.  A JavaScript number is held in fixed point: the integer n     *)
(* stands for n / Scale.  Sums and differences are exact; a quotient is    *)
(* rounded down to the next representable value.  An optional field        *)
(* (ele?: number, fastestSplit?: Split) is a sequence of length 0 (absent, *)
(* undefined) or 1 (present).  Dates are milliseconds since the epoch.     *)
(***************************************************************************)
EXTENDS Integers, Sequences, FiniteSets, TLC

\* ------------------------------------------------------------------ bounds

\* Precision of the fixed-point numbers: n stands for n / Scale.
Scale == 1000

\* Longest track of the exhaustively enumerated inputs.
MaxLen == 3

\* Length of the long uniformly sampled tracks (beside the 26-point one).
LongLen == 63

\* Longest input of the percentile machine.
MaxValues == 5

\* The points haversineDistance is measured between lie on a grid of
\* 2 * GridSteps + 1 latitudes and as many longitudes.
GridSteps == 4

\* Most samples (coordinates, records, trackpoints) of one track of a
\* document handed to an adapter.
MaxSamples == 2

\* --------------------------------------------------------------- numbers

Num(x) == x * Scale

Half == Scale \div 2

One == Scale

Abs(x) == IF x < 0 THEN -x ELSE x

Max(a, b) == IF a > b THEN a ELSE b

Min(a, b) == IF a < b THEN a ELSE b

\* a / b of two numbers of the same scale, as a fixed-point number.
Quot(a, b) == (a * Scale) \div b

\* ------------------------------------------------------- optional values

Undefined == << >>

Some(v) == << v >>

Has(o) == o # << >>

Val(o) == o[1]

\* JavaScript truthiness of an optional number: undefined and 0 are falsy.
Truthy(o) == Has(o) /\ Val(o) # 0

\* (o || 0) of an optional number.
OrZero(o) == IF Truthy(o) THEN Val(o) ELSE 0

\* ------------------------------------------------------------------- loops

\* A loop of the program is an operator XLoop(..., state, from, to): the
\* iterations from .. to-1 (0-based) applied to the loop's variables, run as
\* two halves so that the recursion stays shallow.  Then(first, Rest) is
\* Rest(first); its test makes TLC compute first, the state after the first
\* half, before it starts on the second.
Then(first, Rest(_)) == IF first = first THEN Rest(first) ELSE Rest(first)

Middle(from, to) == (from + to) \div 2

\* ----------------------------------------------------------------- points

\* Point (src/src/types/activity.ts).  lat and lng are arc lengths on the
\* sphere of radius R (the angle times R), so that the great-circle distance
\* of two points of one meridian is the difference of their lat.
Point(lat, lng, ele, time, hr, cadence, power, temp) ==
  [lat |-> lat, lng |-> lng, ele |-> ele, time |-> time, hr |-> hr,
   cadence |-> cadence, power |-> power, temp |-> temp]

\* haversineDistance with the differences taken signed.
haversineDistanceSigned(p1, p2) ==
  CASE p1.lng = p2.lng -> p2.lat - p1.lat
    [] p1.lng # p2.lng /\ p1.lat = 0 /\ p2.lat = 0 -> p2.lng - p1.lng

\* haversineDistance: R * c, c the central angle.  On one meridian
\* (equal lng) a = sin^2(dphi / 2) and c = |dphi|; on the equator (both lat 0)
\* a = sin^2(dlambda / 2) and c = |dlambda|.
haversineDistance(p1, p2) ==
  CASE p1.lng = p2.lng -> Abs(p2.lat - p1.lat)
    [] p1.lng # p2.lng /\ p1.lat = 0 /\ p2.lat = 0 -> Abs(p2.lng - p1.lng)

\* ------------------------------------------------------------ computeMetrics

\* (date2.getTime() - date1.getTime()) / 1000
Seconds(t2, t1) == ((t2 - t1) * Scale) \div 1000

RECURSIVE SumField(_, _, _, _)
\* sum and count of points[i][field] for i in from..to-1 (0-based from, to)
SumField(points, field, from, to) ==
  IF from >= to THEN [sum |-> 0, count |-> 0]
  ELSE LET rest == SumField(points, field, from + 1, to)
       IN [sum |-> points[from + 1][field] + rest.sum, count |-> 1 + rest.count]

\* A slip: the window left open at its start, every value pushed so far
\* averaged in.
smoothValueWholePrefix(points, index, field, value, windowSize) ==
  LET prior == SumField(points, field, 0, index)
  IN IF index = 0 THEN value
     ELSE (value + prior.sum) \div (1 + prior.count)

\* smoothValue(points, index, field, value, windowSize); index is 0-based.
smoothValue(points, index, field, value, windowSize) ==
  LET halfWindow == windowSize \div 2
      start == Max(0, index - halfWindow)
      end == Min(Len(points), index + halfWindow)
      prior == SumField(points, field, start, index)
  IN IF end - start = 0 THEN value
     ELSE (value + prior.sum) \div (1 + prior.count)

\* A slip: the distance of the last segment alone, never summed.
AccumulateLastOnly(cumulativeDistance, segmentDistance) == segmentDistance

\* cumulativeDistance += segmentDistance
Accumulate(cumulativeDistance, segmentDistance) ==
  cumulativeDistance + segmentDistance

\* The values computeMetrics's loop derives for index i (0-based) before any
\* smoothing: the segment's distance, the speed, the pace and the grade.
RawOf(points, i) ==
  LET curr == points[i + 1]
      prev == IF i > 0 THEN points[i] ELSE curr
      segmentDistance == IF i > 0 THEN haversineDistance(prev, curr) ELSE 0
      timeDelta == IF Has(curr.time) /\ Has(prev.time)
                   THEN Seconds(Val(curr.time), Val(prev.time))
                   ELSE Num(1)
      speed == IF timeDelta > 0 THEN Quot(segmentDistance, timeDelta) ELSE 0
      pace == IF speed > 0 THEN Quot(Num(1000), speed * 60) ELSE 0
      elevationDelta == IF Truthy(curr.ele) /\ Truthy(prev.ele)
                        THEN Val(curr.ele) - Val(prev.ele)
                        ELSE 0
      grade == IF segmentDistance > 0
               THEN Quot(elevationDelta, segmentDistance) * 100
               ELSE 0
  IN [segmentDistance |-> segmentDistance, speed |-> speed,
      pace |-> pace, grade |-> grade]

\* One iteration of computeMetrics's loop: the ProcessedPoint pushed for
\* index i (0-based), given the points processed so far and the cumulative
\* distance before this iteration.
MetricsOf(points, processed, cumulativeBefore, i) ==
  LET curr == points[i + 1]
      raw == RawOf(points, i)
      cumulativeDistance == Accumulate(cumulativeBefore, raw.segmentDistance)
  IN [lat |-> curr.lat, lng |-> curr.lng, ele |-> curr.ele, time |-> curr.time,
      hr |-> curr.hr, cadence |-> curr.cadence, power |-> curr.power,
      temp |-> curr.temp,
      distance |-> cumulativeDistance,
      pace |-> smoothValue(processed, i, "pace", raw.pace, 10),
      grade |-> smoothValue(processed, i, "grade", raw.grade, 5),
      speed |-> raw.speed,
      normalizedPace |-> Undefined,
      normalizedHR |-> Undefined,
      normalizedPower |-> Undefined]

\* The body of computeMetrics's loop for index i: processed.push(...).
MetricsStep(points, state, i) ==
  LET pushed == MetricsOf(points, state.processed, state.cumulativeDistance, i)
  IN [processed |-> Append(state.processed, pushed),
      cumulativeDistance |-> pushed.distance]

RECURSIVE MetricsLoop(_, _, _, _)
MetricsLoop(points, state, from, to) ==
  IF from >= to THEN state
  ELSE IF to = from + 1 THEN MetricsStep(points, state, from)
  ELSE Then(MetricsLoop(points, state, from, Middle(from, to)),
            LAMBDA half : MetricsLoop(points, half, Middle(from, to), to))

MetricsStart == [processed |-> << >>, cumulativeDistance |-> 0]

\* A slip: the loop stops one point early (i < points.length - 1).
computeMetricsStopsEarly(points) ==
  MetricsLoop(points, MetricsStart, 0, Len(points) - 1).processed

computeMetrics(points) ==
  MetricsLoop(points, MetricsStart, 0, Len(points)).processed

\* ---------------------------------------------------------- normalizeMetrics

\* [...values].sort((a, b) => a - b)
SortAscending(values) == SortSeq(values, LAMBDA a, b : a < b)

\* A fraction p = num / den, the second argument of percentile.
Frac(num, den) == [num |-> num, den |-> den]

\* A slip: Math.ceil(n * p).
CeilTimes(n, p) == (n * p.num + p.den - 1) \div p.den

\* Math.floor(n * p)
FloorTimes(n, p) == (n * p.num) \div p.den

\* percentile(values, p): sorted[index] || 0, where an index past the end
\* reads undefined.
percentile(values, p) ==
  LET sorted == SortAscending(values)
      index == FloorTimes(Len(sorted), p)
  IN IF index < Len(sorted) /\ sorted[index + 1] # 0
     THEN sorted[index + 1]
     ELSE 0

\* A slip: the quotient left unclamped.
normalizeUnclamped(value, min, max) ==
  IF max = min THEN Half ELSE Quot(value - min, max - min)

normalize(value, min, max) ==
  IF max = min THEN Half
  ELSE Max(0, Min(One, Quot(value - min, max - min)))

\* points.map((p) => p[field]).filter((v) => v !== undefined)
Defined(points, field) ==
  LET present == SelectSeq([i \in 1..Len(points) |-> points[i][field]], Has)
  IN [i \in 1..Len(present) |-> Val(present[i])]

\* points.map((p) => p.pace).filter((p) => p > 0)
Paces(points) ==
  SelectSeq([i \in 1..Len(points) |-> points[i].pace], LAMBDA pace : pace > 0)

normalizeMetrics(points) ==
  LET paces == Paces(points)
      hrs == Defined(points, "hr")
      powers == Defined(points, "power")
      paceP5 == percentile(paces, Frac(5, 100))
      paceP95 == percentile(paces, Frac(95, 100))
      hrP5 == IF Len(hrs) > 0 THEN percentile(hrs, Frac(5, 100)) ELSE 0
      hrP95 == IF Len(hrs) > 0 THEN percentile(hrs, Frac(95, 100)) ELSE 0
      powerP5 == IF Len(powers) > 0 THEN percentile(powers, Frac(5, 100)) ELSE 0
      powerP95 == IF Len(powers) > 0 THEN percentile(powers, Frac(95, 100)) ELSE 0
  IN [i \in 1..Len(points) |->
        [points[i] EXCEPT
           !.normalizedPace = Some(normalize(points[i].pace, paceP5, paceP95)),
           !.normalizedHR =
              IF Truthy(points[i].hr)
              THEN Some(normalize(Val(points[i].hr), hrP5, hrP95))
              ELSE Undefined,
           !.normalizedPower =
              IF Truthy(points[i].power)
              THEN Some(normalize(Val(points[i].power), powerP5, powerP95))
              ELSE Undefined]]

\* -------------------------------------------------------------- detectSplits

\* A call that throws (a TypeError) instead of returning a value.
Thrown == << "TypeError", "TypeError" >>

\* points.slice(from, to): the 0-based indices from .. to-1.
Slice(points, from, to) == SubSeq(points, from + 1, to)

RECURSIVE SumSeq(_, _, _)
\* numbers[from] + ... + numbers[to - 1] (0-based), summed in two halves.
SumSeq(numbers, from, to) ==
  IF from >= to THEN 0
  ELSE IF to = from + 1 THEN numbers[from + 1]
  ELSE SumSeq(numbers, from, Middle(from, to))
         + SumSeq(numbers, Middle(from, to), to)

\* splitPoints.reduce((sum, p) => sum + p.pace, 0)
SumPace(splitPoints) ==
  SumSeq([i \in 1..Len(splitPoints) |-> splitPoints[i].pace],
         0, Len(splitPoints))

\* splitPoints.reduce((sum, p) => sum + (p.hr || 0), 0)
SumHR(splitPoints) ==
  SumSeq([i \in 1..Len(splitPoints) |-> OrZero(splitPoints[i].hr)],
         0, Len(splitPoints))

\* What the elevGain reduce of detectSplits adds for index idx (0-based).
ElevGainAt(splitPoints, idx) ==
  IF idx = 0 THEN 0
  ELSE LET p == splitPoints[idx + 1]
           prev == splitPoints[idx]
       IN IF Truthy(p.ele) /\ Truthy(prev.ele) /\ Val(p.ele) > Val(prev.ele)
          THEN Val(p.ele) - Val(prev.ele)
          ELSE 0

\* splitPoints.reduce((sum, p, idx) => ..., 0)
SumElevGain(splitPoints) ==
  SumSeq([i \in 1..Len(splitPoints) |-> ElevGainAt(splitPoints, i - 1)],
         0, Len(splitPoints))

\* The Split pushed when the accumulator reaches splitDistance at index i.
SplitOf(points, splits, currentSplitStart, currentSplitDistance, i) ==
  LET splitPoints == Slice(points, currentSplitStart, i + 1)
      startTime == splitPoints[1].time
      endTime == splitPoints[Len(splitPoints)].time
      splitTime == IF Has(startTime) /\ Has(endTime)
                   THEN Seconds(Val(endTime), Val(startTime))
                   ELSE 0
      avgPace == SumPace(splitPoints) \div Len(splitPoints)
      avgHR == SumHR(splitPoints) \div Len(splitPoints)
      elevGain == SumElevGain(splitPoints)
  IN [index |-> Len(splits),
      distance |-> currentSplitDistance,
      time |-> splitTime,
      pace |-> avgPace,
      elevationGain |-> elevGain,
      averageHR |-> IF avgHR > 0 THEN Some(avgHR) ELSE Undefined]

\* A slip: a split closed only once the accumulator exceeds splitDistance.
ExceedsSplit(currentSplitDistance, splitDistance) ==
  currentSplitDistance > splitDistance

\* if (currentSplitDistance >= splitDistance)
ReachesSplit(currentSplitDistance, splitDistance) ==
  currentSplitDistance >= splitDistance

\* A slip: the next slice started after the point that closed the split,
\* so that consecutive slices share no point.
SplitsStepDisjoint(points, splitDistance, state, i) ==
  LET segmentDistance == points[i + 1].distance - points[i].distance
      currentSplitDistance == state.currentSplitDistance + segmentDistance
  IN IF ReachesSplit(currentSplitDistance, splitDistance)
     THEN [splits |-> Append(state.splits,
                             SplitOf(points, state.splits,
                                     state.currentSplitStart,
                                     currentSplitDistance, i)),
           currentSplitStart |-> i + 1,
           currentSplitDistance |-> 0]
     ELSE [state EXCEPT !.currentSplitDistance = currentSplitDistance]

\* The body of detectSplits's loop for index i.
SplitsStep(points, splitDistance, state, i) ==
  LET segmentDistance == points[i + 1].distance - points[i].distance
      currentSplitDistance == state.currentSplitDistance + segmentDistance
  IN IF ReachesSplit(currentSplitDistance, splitDistance)
     THEN [splits |-> Append(state.splits,
                             SplitOf(points, state.splits,
                                     state.currentSplitStart,
                                     currentSplitDistance, i)),
           currentSplitStart |-> i,
           currentSplitDistance |-> 0]
     ELSE [state EXCEPT !.currentSplitDistance = currentSplitDistance]

RECURSIVE SplitsLoop(_, _, _, _, _)
SplitsLoop(points, splitDistance, state, from, to) ==
  IF from >= to THEN state
  ELSE IF to = from + 1 THEN SplitsStep(points, splitDistance, state, from)
  ELSE Then(SplitsLoop(points, splitDistance, state, from, Middle(from, to)),
            LAMBDA half :
              SplitsLoop(points, splitDistance, half, Middle(from, to), to))

detectSplits(points, splitDistance) ==
  SplitsLoop(points, splitDistance,
             [splits |-> << >>, currentSplitStart |-> 0,
              currentSplitDistance |-> 0],
             1, Len(points)).splits

\* ---------------------------------------------------------- findFastestSplit

\* A slip: the comparison turned round, which keeps the slowest split.
IsSlower(split, fastest) == split.pace > fastest.pace

\* split.pace < fastest.pace
IsFaster(split, fastest) == split.pace < fastest.pace

RECURSIVE FastestFrom(_, _, _)
\* The reduce callback applied from element k (1-based) on.
FastestFrom(splits, fastest, k) ==
  IF k > Len(splits) THEN fastest
  ELSE FastestFrom(splits,
                   IF IsFaster(splits[k], fastest) THEN splits[k] ELSE fastest,
                   k + 1)

\* splits.reduce((fastest, split) => ...), with no initial value: the first
\* element starts the fold, and an empty array throws.
ReduceFastest(splits) ==
  IF Len(splits) = 0 THEN Thrown
  ELSE Some(FastestFrom(splits, splits[1], 2))

\* A slip: the reduce without its guard for an empty list.
findFastestSplitUnguarded(splits) == ReduceFastest(splits)

findFastestSplit(splits) ==
  IF Len(splits) = 0 THEN Undefined ELSE ReduceFastest(splits)

\* --------------------------------------------------------- findSteepestClimb

\* x.toFixed(digits), as the integer x * 10^digits rounded to nearest.
ToFixed(x, digits) ==
  LET shift == IF digits = 1 THEN 10 ELSE 100
  IN (x * shift + Half) \div Scale

\* grade = (totalElevGain / segmentDistance) * 100
ClimbGrade(elevGain, segmentDistance) == Quot(elevGain, segmentDistance) * 100

\* A slip: the size of the elevation change, a descent counted as a gain.
ClimbGainAbsolute(points, i, j) ==
  IF Truthy(points[j + 1].ele) /\ Truthy(points[i + 1].ele)
  THEN Abs(Val(points[j + 1].ele) - Val(points[i + 1].ele))
  ELSE 0

\* The elevation gained from point i to point j (0-based) when both carry a
\* truthy elevation, and 0 otherwise.
ClimbGain(points, i, j) ==
  IF Truthy(points[j + 1].ele) /\ Truthy(points[i + 1].ele)
  THEN Val(points[j + 1].ele) - Val(points[i + 1].ele)
  ELSE 0

\* The body of the while loop with the scan running on to the end of the
\* track, whatever segmentDistance has reached.
ClimbInnerStepUncapped(points, minDistance, i, state, j) ==
  LET segmentDistance == points[j + 1].distance - points[i + 1].distance
      elevGain == ClimbGain(points, i, j)
  IN IF elevGain > 0 /\ segmentDistance >= minDistance
        /\ ClimbGrade(elevGain, segmentDistance) > state.maxGrade
     THEN LET grade == ClimbGrade(elevGain, segmentDistance)
          IN [segmentDistance |-> segmentDistance,
              maxGrade |-> grade,
              steepest |-> Some(
                [startIndex |-> i,
                 endIndex |-> j,
                 distance |-> segmentDistance,
                 grade |-> grade,
                 description |->
                   [percent |-> ToFixed(grade, 1),
                    km |-> ToFixed(segmentDistance \div 1000, 2)]])]
     ELSE [state EXCEPT !.segmentDistance = segmentDistance]

\* The body of findSteepestClimb's while loop for the start index i and the
\* index j, a step that changes nothing once segmentDistance has reached
\* minDistance * 2 (the loop has ended).  A segmentDistance of 0 with a gain
\* gives the grade Infinity, which segmentDistance >= minDistance discards.
ClimbInnerStep(points, minDistance, i, state, j) ==
  IF ~(state.segmentDistance < minDistance * 2) THEN state
  ELSE LET segmentDistance == points[j + 1].distance - points[i + 1].distance
           elevGain == ClimbGain(points, i, j)
       IN IF elevGain > 0 /\ segmentDistance >= minDistance
             /\ ClimbGrade(elevGain, segmentDistance) > state.maxGrade
          THEN LET grade == ClimbGrade(elevGain, segmentDistance)
               IN [segmentDistance |-> segmentDistance,
                   maxGrade |-> grade,
                   steepest |-> Some(
                     [startIndex |-> i,
                      endIndex |-> j,
                      distance |-> segmentDistance,
                      grade |-> grade,
                      description |->
                        [percent |-> ToFixed(grade, 1),
                         km |-> ToFixed(segmentDistance \div 1000, 2)]])]
          ELSE [state EXCEPT !.segmentDistance = segmentDistance]

RECURSIVE ClimbInnerLoop(_, _, _, _, _, _)
ClimbInnerLoop(points, minDistance, i, state, from, to) ==
  IF from >= to THEN state
  ELSE IF to = from + 1 THEN ClimbInnerStep(points, minDistance, i, state, from)
  ELSE Then(ClimbInnerLoop(points, minDistance, i, state, from, Middle(from, to)),
            LAMBDA half :
              ClimbInnerLoop(points, minDistance, i, half, Middle(from, to), to))

\* The body of findSteepestClimb's for loop for the start index i:
\* j = i + 1, segmentDistance = 0, and the while loop.
ClimbOuterStep(points, minDistance, state, i) ==
  ClimbInnerLoop(points, minDistance, i,
                 [state EXCEPT !.segmentDistance = 0], i + 1, Len(points))

RECURSIVE ClimbOuterLoop(_, _, _, _, _)
ClimbOuterLoop(points, minDistance, state, from, to) ==
  IF from >= to THEN state
  ELSE IF to = from + 1 THEN ClimbOuterStep(points, minDistance, state, from)
  ELSE Then(ClimbOuterLoop(points, minDistance, state, from, Middle(from, to)),
            LAMBDA half :
              ClimbOuterLoop(points, minDistance, half, Middle(from, to), to))

findSteepestClimb(points, minDistance) ==
  ClimbOuterLoop(points, minDistance,
                 [segmentDistance |-> 0, maxGrade |-> 0, steepest |-> Undefined],
                 0, Len(points) - 1).steepest

\* ---------------------------------------------------------- findMaxHRSegment

\* The body of findMaxHRSegment's loop for index i.
MaxHRStep(points, state, i) ==
  IF Truthy(points[i + 1].hr) /\ Val(points[i + 1].hr) > state.maxHR
  THEN [maxHR |-> Val(points[i + 1].hr), maxHRIndex |-> i]
  ELSE state

RECURSIVE MaxHRLoop(_, _, _, _)
MaxHRLoop(points, state, from, to) ==
  IF from >= to THEN state
  ELSE IF to = from + 1 THEN MaxHRStep(points, state, from)
  ELSE Then(MaxHRLoop(points, state, from, Middle(from, to)),
            LAMBDA half : MaxHRLoop(points, half, Middle(from, to), to))

\* The Segment of findMaxHRSegment around maxHRIndex; points[end] and
\* points[start] read undefined outside the array, and .distance then throws.
MaxHRWindow(points, maxHR, maxHRIndex, windowSize) ==
  LET start == Max(0, maxHRIndex - windowSize)
      end == Min(Len(points) - 1, maxHRIndex + windowSize)
  IN IF start \notin 0..(Len(points) - 1) \/ end \notin 0..(Len(points) - 1)
     THEN Thrown
     ELSE Some([startIndex |-> start,
                endIndex |-> end,
                distance |-> points[end + 1].distance - points[start + 1].distance,
                grade |-> 0,
                description |-> [maxHR |-> maxHR]])

findMaxHRSegment(points) ==
  LET found == MaxHRLoop(points, [maxHR |-> 0, maxHRIndex |-> -1],
                         0, Len(points))
  IN IF found.maxHRIndex = -1 THEN Undefined
     ELSE MaxHRWindow(points, found.maxHR, found.maxHRIndex, 30)

\* ------------------------------------------------------------------ inputs

\* The distances between consecutive points of an enumerated track: none,
\* under and over the climb search's minimum of 100, and one split length.
Steps == {0, Num(60), Num(120), Num(1000)}

Eles == {Undefined, Some(0), Some(Num(5)), Some(Num(10))}

HRs == {Undefined, Some(0), Some(Num(120)), Some(Num(150))}

\* How the points of a track are time-stamped: not at all; all at one instant
\* (a zero-duration activity); every 300 s; every 300 s with the even points
\* unstamped; every 300 s backwards.
TimeModes == {"none", "same", "regular", "gaps", "back"}

PowerModes == {"none", "flat", "ramp"}

\* 2024-01-01T00:00:00Z less the leading digits, in milliseconds.
T0 == 1000 * 1000

\* The timestamp of the i-th point (1-based) under a time mode.
TimeOf(mode, i) ==
  CASE mode = "none" -> Undefined
    [] mode = "same" -> Some(T0)
    [] mode = "regular" -> Some(T0 + (i - 1) * 300 * 1000)
    [] mode = "gaps" -> IF i % 2 = 1 THEN Some(T0 + (i - 1) * 300 * 1000)
                        ELSE Undefined
    [] mode = "back" -> Some(T0 - (i - 1) * 300 * 1000)

\* The power of the i-th point (1-based) under a power mode.
PowerOf(mode, i) ==
  CASE mode = "none" -> Undefined
    [] mode = "flat" -> Some(Num(200))
    [] mode = "ramp" -> Some(Num(100) * (i - 1))

RECURSIVE LatOf(_, _)
\* The position of the i-th point (or its time): the sum of the steps up to
\* it, the first one left out.
LatOf(steps, i) == IF i <= 1 THEN 0 ELSE LatOf(steps, i - 1) + steps[i]

\* A track over some terrain: each step and each elevation chosen freely.
TerrainTrack(n, steps, eles, mode) ==
  [i \in 1..n |->
     Point(LatOf(steps, i), 0, eles[i], TimeOf(mode, i),
           Undefined, Undefined, Undefined, Undefined)]

\* A track of sensor readings: each heart rate chosen freely.
SensorTrack(n, step, hrs, power, mode) ==
  [i \in 1..n |->
     Point((i - 1) * step, 0, Undefined, TimeOf(mode, i),
           hrs[i], Some(Num(80 + i)), PowerOf(power, i), Some(Num(20)))]

\* The heart rate of the i-th point of a long track with its spike at index
\* k (1-based; k = 0: no heart rate at all).
SpikeHR(len, k, i) ==
  IF k = 0 THEN Undefined
  ELSE IF i = k THEN Some(Num(180))
  ELSE IF 2 * i <= len THEN Some(Num(120))
  ELSE Some(Num(150))

\* A long track sampled uniformly, moving or standing, with one heart-rate
\* spike.
UniformTrack(len, step, ele, k) ==
  [i \in 1..len |->
     Point((i - 1) * step, 0, ele, Undefined,
           SpikeHR(len, k, i), Undefined, Undefined, Undefined)]

\* The lengths of the long tracks: 26 points (2,500 units every 100) and
\* LongLen points.
UniformLens == {26, LongLen}

\* A track of one split length per step, each step at its own pace.
PacedTrack(n, durations) ==
  [i \in 1..n |->
     Point((i - 1) * Num(1000), 0, Undefined,
           Some(T0 + LatOf(durations, i) * 1000),
           Undefined, Undefined, Undefined, Undefined)]

\* A track without timestamps climbing and descending by steps of 120, each
\* elevation chosen freely.
GradedTrack(n, eles) ==
  [i \in 1..n |->
     Point((i - 1) * Num(120), 0, eles[i], Undefined,
           Undefined, Undefined, Undefined, Undefined)]

\* An Activity (src/src/types/activity.ts) around a track.
ActivityOf(points) ==
  [name |-> Some("activity"),
   date |-> Undefined,
   points |-> points,
   totalDistance |-> 0,
   totalElevationGain |-> 0,
   totalTime |-> 0,
   averagePace |-> 0,
   averageHR |-> Undefined,
   maxHR |-> Undefined,
   bounds |-> [minLat |-> 0, maxLat |-> 0, minLng |-> 0, maxLng |-> 0]]

\* The activities processActivity is called with: tracks of up to MaxLen
\* points over every terrain (the zero-duration ones of less than MaxLen
\* points) and over every sensor reading, long uniform
\* tracks, and tracks of up to MaxLen + 2 points with each step taking 0 s,
\* 300 s or 600 s, tracks of MaxLen + 1 or MaxLen + 2 points climbing and
\* descending, and tracks of MaxLen + 3 or MaxLen + 4 points sampled every
\* 600 units.
IsInput(a) ==
  \/ \E n \in 0..MaxLen :
       \E steps \in {f \in [1..n -> Steps] : n = 0 \/ f[1] = 0},
          eles \in [1..n -> Eles],
          mode \in IF n < MaxLen THEN {"none", "same", "regular"}
                   ELSE {"none", "regular"} :
         a = ActivityOf(TerrainTrack(n, steps, eles, mode))
  \/ \E n \in 0..MaxLen :
       \E step \in {0, Num(1000)},
          hrs \in [1..n -> HRs],
          power \in PowerModes,
          mode \in TimeModes :
         a = ActivityOf(SensorTrack(n, step, hrs, power, mode))
  \/ \E len \in UniformLens :
       \E step \in {0, Num(100)},
          ele \in {Undefined, Some(Num(50))},
          k \in 0..len :
         a = ActivityOf(UniformTrack(len, step, ele, k))
  \/ \E n \in 2..(MaxLen + 2) :
       \E durations \in {f \in [1..n -> {0, 300, 600}] : f[1] = 0} :
         a = ActivityOf(PacedTrack(n, durations))
  \/ \E n \in (MaxLen + 1)..(MaxLen + 2) :
       \E eles \in [1..n -> {Some(Num(5)), Some(Num(10))}] :
         a = ActivityOf(GradedTrack(n, eles))
  \/ \E n \in (MaxLen + 3)..(MaxLen + 4) :
       \E ele \in {Undefined, Some(Num(50))}, k \in 0..1 :
         a = ActivityOf(UniformTrack(n, Num(600), ele, k))

\* ----------------------------------------------------------- the machines

VARIABLES
  activity,         \* processActivity's argument
  pc,               \* the statement of processActivity reached
  processedPoints,  \* processActivity's locals
  normalizedPoints,
  splits,
  fastestSplit,
  steepestClimb,
  maxHRSegment,
  result,           \* the ProcessedActivity returned
  values,           \* percentile's arguments
  p,
  percentileResult, \* percentile's return value
  format,           \* the adapter at work: "gpx", "fit", "tcx" or "none"
  document,         \* what the adapter's library decodes from the file
  adapterPc,        \* the statement of the adapter reached
  decoderCalls,     \* the methods of the FIT Decoder called so far
  parsedPoints,     \* the adapter's local points
  parsed,           \* the Activity the adapter returned
  thrown,           \* the Error the adapter threw
  pointA,           \* haversineDistance's arguments, in either order
  pointB,
  distances,        \* what haversineDistance returned for them
  isProcessing,     \* Studio's state, as useState holds it
  studioError,      \* Studio's error
  studioActivity,   \* Studio's activity
  isDragging,
  submitted,        \* the files handed to processFile so far, in order
  inFlight          \* the calls of processFile suspended at their await

vars == << activity, pc, processedPoints, normalizedPoints, splits,
           fastestSplit, steepestClimb, maxHRSegment, result,
           values, p, percentileResult,
           format, document, adapterPc, decoderCalls, parsedPoints, parsed,
           thrown, pointA, pointB, distances,
           isProcessing, studioError, studioActivity, isDragging, submitted,
           inFlight >>

studioVars == << isProcessing, studioError, studioActivity, isDragging, submitted,
                 inFlight >>

\* Studio as it mounts, lines 15-22: no activity, no error, nothing being
\* processed or dragged.
StudioIdle ==
  /\ isProcessing = FALSE
  /\ studioError = << >>
  /\ studioActivity = << >>
  /\ isDragging = FALSE
  /\ submitted = << >>
  /\ inFlight = {}

haversineVars == << pointA, pointB, distances >>

\* haversineDistance is not being measured.
HaversineIdle ==
  /\ pointA = Point(0, 0, Undefined, Undefined, Undefined, Undefined,
                    Undefined, Undefined)
  /\ pointB = pointA
  /\ distances = Undefined

adapterVars == << format, document, adapterPc, decoderCalls, parsedPoints,
                 parsed, thrown >>

\* No adapter is at work.
AdapterIdle ==
  /\ format = "none"
  /\ document = << >>
  /\ adapterPc = "idle"
  /\ decoderCalls = << >>
  /\ parsedPoints = << >>
  /\ parsed = Undefined
  /\ thrown = Undefined

percentileVars == << values, p, percentileResult >>

pipelineVars == << activity, pc, processedPoints, normalizedPoints, splits,
                   fastestSplit, steepestClimb, maxHRSegment, result >>

\* processActivity is called with an Activity.
Init ==
  /\ IsInput(activity)
  /\ pc = "computeMetrics"
  /\ processedPoints = << >>
  /\ normalizedPoints = << >>
  /\ splits = << >>
  /\ fastestSplit = Undefined
  /\ steepestClimb = Undefined
  /\ maxHRSegment = Undefined
  /\ result = Undefined
  /\ values = << >>
  /\ p = Frac(0, 1)
  /\ percentileResult = Undefined
  /\ AdapterIdle
  /\ HaversineIdle
  /\ StudioIdle

\* const processedPoints = computeMetrics(activity.points);
ComputeMetrics ==
  /\ pc = "computeMetrics"
  /\ processedPoints' = computeMetrics(activity.points)
  /\ pc' = "normalizeMetrics"
  /\ UNCHANGED << activity, normalizedPoints, splits, fastestSplit,
                  steepestClimb, maxHRSegment, result, percentileVars,
                  adapterVars, haversineVars, studioVars >>

\* const normalizedPoints = normalizeMetrics(processedPoints);
NormalizeMetrics ==
  /\ pc = "normalizeMetrics"
  /\ normalizedPoints' = normalizeMetrics(processedPoints)
  /\ pc' = "detectSplits"
  /\ UNCHANGED << activity, processedPoints, splits, fastestSplit,
                  steepestClimb, maxHRSegment, result, percentileVars,
                  adapterVars, haversineVars, studioVars >>

\* const splits = detectSplits(normalizedPoints, 1000);
DetectSplits ==
  /\ pc = "detectSplits"
  /\ splits' = detectSplits(normalizedPoints, Num(1000))
  /\ pc' = "findFastestSplit"
  /\ UNCHANGED << activity, processedPoints, normalizedPoints, fastestSplit,
                  steepestClimb, maxHRSegment, result, percentileVars,
                  adapterVars, haversineVars, studioVars >>

\* const fastestSplit = findFastestSplit(splits);
FindFastestSplit ==
  /\ pc = "findFastestSplit"
  /\ LET found == findFastestSplit(splits)
     IN IF found = Thrown
        THEN pc' = "raised" /\ UNCHANGED fastestSplit
        ELSE pc' = "findSteepestClimb" /\ fastestSplit' = found
  /\ UNCHANGED << activity, processedPoints, normalizedPoints, splits,
                  steepestClimb, maxHRSegment, result, percentileVars,
                  adapterVars, haversineVars, studioVars >>

\* const steepestClimb = findSteepestClimb(normalizedPoints);
FindSteepestClimb ==
  /\ pc = "findSteepestClimb"
  /\ steepestClimb' = findSteepestClimb(normalizedPoints, Num(100))
  /\ pc' = "findMaxHRSegment"
  /\ UNCHANGED << activity, processedPoints, normalizedPoints, splits,
                  fastestSplit, maxHRSegment, result, percentileVars,
                  adapterVars, haversineVars, studioVars >>

\* const maxHRSegment = findMaxHRSegment(normalizedPoints);
FindMaxHRSegment ==
  /\ pc = "findMaxHRSegment"
  /\ LET found == findMaxHRSegment(normalizedPoints)
     IN IF found = Thrown
        THEN pc' = "raised" /\ UNCHANGED maxHRSegment
        ELSE pc' = "return" /\ maxHRSegment' = found
  /\ UNCHANGED << activity, processedPoints, normalizedPoints, splits,
                  fastestSplit, steepestClimb, result, percentileVars,
                  adapterVars, haversineVars, studioVars >>

\* A return that recomputes the total distance from the processed points.
ReturnRecomputed ==
  /\ pc = "return"
  /\ result' = Some([name |-> activity.name,
                     date |-> activity.date,
                     points |-> activity.points,
                     totalDistance |->
                       IF Len(normalizedPoints) = 0 THEN 0
                       ELSE normalizedPoints[Len(normalizedPoints)].distance,
                     totalElevationGain |-> activity.totalElevationGain,
                     totalTime |-> activity.totalTime,
                     averagePace |-> activity.averagePace,
                     averageHR |-> activity.averageHR,
                     maxHR |-> activity.maxHR,
                     bounds |-> activity.bounds,
                     processedPoints |-> normalizedPoints,
                     splits |-> splits,
                     fastestSplit |-> fastestSplit,
                     steepestClimb |-> steepestClimb,
                     maxHRSegment |-> maxHRSegment])
  /\ pc' = "returned"
  /\ UNCHANGED << activity, processedPoints, normalizedPoints, splits,
                  fastestSplit, steepestClimb, maxHRSegment, percentileVars,
                  adapterVars, haversineVars, studioVars >>

\* return { ...activity, processedPoints: normalizedPoints, splits, ... };
Return ==
  /\ pc = "return"
  /\ result' = Some([name |-> activity.name,
                     date |-> activity.date,
                     points |-> activity.points,
                     totalDistance |-> activity.totalDistance,
                     totalElevationGain |-> activity.totalElevationGain,
                     totalTime |-> activity.totalTime,
                     averagePace |-> activity.averagePace,
                     averageHR |-> activity.averageHR,
                     maxHR |-> activity.maxHR,
                     bounds |-> activity.bounds,
                     processedPoints |-> normalizedPoints,
                     splits |-> splits,
                     fastestSplit |-> fastestSplit,
                     steepestClimb |-> steepestClimb,
                     maxHRSegment |-> maxHRSegment])
  /\ pc' = "returned"
  /\ UNCHANGED << activity, processedPoints, normalizedPoints, splits,
                  fastestSplit, steepestClimb, maxHRSegment, percentileVars,
                  adapterVars, haversineVars, studioVars >>

Next ==
  \/ ComputeMetrics
  \/ NormalizeMetrics
  \/ DetectSplits
  \/ FindFastestSplit
  \/ FindSteepestClimb
  \/ FindMaxHRSegment
  \/ Return

Spec == Init /\ [][Next]_vars

\* ------------------------------------------------- the percentile machine

PercentileValues == {Num(k) : k \in 0..5}

Fractions == {Frac(0, 1), Frac(1, 20), Frac(1, 2), Frac(19, 20), Frac(1, 1)}

\* percentile is about to be called on values and p.
InitPercentile ==
  /\ activity = ActivityOf(<< >>)
  /\ pc = "idle"
  /\ processedPoints = << >>
  /\ normalizedPoints = << >>
  /\ splits = << >>
  /\ fastestSplit = Undefined
  /\ steepestClimb = Undefined
  /\ maxHRSegment = Undefined
  /\ result = Undefined
  /\ values \in UNION {[1..n -> PercentileValues] : n \in 0..MaxValues}
  /\ p \in Fractions
  /\ percentileResult = Undefined
  /\ AdapterIdle
  /\ HaversineIdle
  /\ StudioIdle

\* percentile(values, p) returns.
CallPercentile ==
  /\ pc = "idle"
  /\ percentileResult = Undefined
  /\ percentileResult' = Some(percentile(values, p))
  /\ UNCHANGED << pipelineVars, values, p, adapterVars, haversineVars, studioVars >>

NextPercentile == CallPercentile

SpecPercentile == InitPercentile /\ [][NextPercentile]_vars

\* ------------------------------------------------------------ the adapters

(***************************************************************************)
(* parseGPXFile (src/src/utils/gpxParser.ts), parseFITFile                 *)
(* (src/unnamed/part_004) and parseTCXFile (src/src/utils/tcxParser.ts).   *)
(* What the adapter's library hands over is the input: the GeoJSON of      *)
(* togeojson, the integrity verdict and the messages of the FIT Decoder,   *)
(* the object tree of fast-xml-parser.  Coordinates are degrees in fixed   *)
(* point and every document lies on one meridian, where the great-circle   *)
(* distance of two points is the difference of their lat; lengths are in   *)
(* degrees of arc.  A JavaScript array is a sequence, and an XML element   *)
(* that fast-xml-parser delivers alone is the sequence of that one         *)
(* element, which is what Array.isArray(x) ? x : [x] makes of it.          *)
(***************************************************************************)

\* Infinity, -Infinity and NaN: three integers beyond every number of a
\* document, Infinity above them all and -Infinity below.
Infinity == 2000000000

NegInfinity == -Infinity

NaN == Infinity + 1

isNaN(x) == x = NaN

MathMin(a, b) == Min(a, b)

MathMax(a, b) == Max(a, b)

\* a / b where b may be 0 and a > 0.
Divide(a, b) == IF b = 0 THEN Infinity ELSE Quot(a, b)

\* a || b
Or(a, b) == IF Truthy(a) THEN a ELSE b

\* new Error(message)
Error(message) == [name |-> "Error", message |-> message]

\* file.name.replace(extension, ""), file.name given as stem and extension.
ReplaceExtension(fileName, extension) ==
  IF fileName.extension = extension THEN fileName.stem
  ELSE fileName.stem \o fileName.extension

\* The loop shared by calculateBasicMetrics, calculateMetricsFromFIT and
\* calculateTCXMetrics, from i = 1: distance, elevation gain, bounds and
\* (FIT and TCX) heart-rate totals.
TotalsStart ==
  [totalDistance |-> 0, totalElevationGain |-> 0,
   minLat |-> Infinity, maxLat |-> NegInfinity,
   minLng |-> Infinity, maxLng |-> NegInfinity,
   hrSum |-> 0, hrCount |-> 0, maxHR |-> 0]

TotalsStep(points, t, i) ==
  LET prev == points[i]
      curr == points[i + 1]
      rises == Truthy(curr.ele) /\ Truthy(prev.ele)
                 /\ Val(curr.ele) > Val(prev.ele)
  IN [totalDistance |-> t.totalDistance + haversineDistance(prev, curr),
      totalElevationGain |->
        IF rises THEN t.totalElevationGain + (Val(curr.ele) - Val(prev.ele))
        ELSE t.totalElevationGain,
      minLat |-> MathMin(t.minLat, curr.lat),
      maxLat |-> MathMax(t.maxLat, curr.lat),
      minLng |-> MathMin(t.minLng, curr.lng),
      maxLng |-> MathMax(t.maxLng, curr.lng),
      hrSum |-> IF Truthy(curr.hr) THEN t.hrSum + Val(curr.hr) ELSE t.hrSum,
      hrCount |-> IF Truthy(curr.hr) THEN t.hrCount + 1 ELSE t.hrCount,
      maxHR |-> IF Truthy(curr.hr) THEN Max(t.maxHR, Val(curr.hr))
                ELSE t.maxHR]

RECURSIVE TotalsLoop(_, _, _)
\* for (let i = 1; i < points.length; i++), i 0-based
TotalsLoop(points, t, i) ==
  IF i >= Len(points) THEN t
  ELSE TotalsLoop(points, TotalsStep(points, t, i), i + 1)

\* firstPoint.time && lastPoint.time ? (last - first) / 1000 : 0 (a Date is
\* truthy whatever its instant)
TimeSpan(points) ==
  LET firstPoint == points[1]
      lastPoint == points[Len(points)]
  IN IF Has(firstPoint.time) /\ Has(lastPoint.time)
     THEN Seconds(Val(lastPoint.time), Val(firstPoint.time))
     ELSE 0

Bounds(t) ==
  [minLat |-> t.minLat, maxLat |-> t.maxLat,
   minLng |-> t.minLng, maxLng |-> t.maxLng]

calculateBasicMetrics(points) ==
  LET t == TotalsLoop(points, TotalsStart, 1)
      totalTime == TimeSpan(points)
  IN [totalDistance |-> t.totalDistance,
      totalElevationGain |-> t.totalElevationGain,
      totalTime |-> totalTime,
      averagePace |-> IF totalTime > 0 THEN Divide(totalTime, t.totalDistance)
                      ELSE 0,
      bounds |-> Bounds(t)]

\* ---- parseGPXFile

\* coord[k], k 0-based: undefined past the end of the coordinate.
CoordAt(coord, k) == IF k < Len(coord) THEN Some(coord[k + 1]) ELSE Undefined

\* The Point of lineString[i] (i 0-based): lng, lat and ele from the
\* coordinate, time from coordTimes[i] when the feature has it.
GpxPoint(feature, lineString, i) ==
  LET coord == lineString[i + 1]
      coordTimes == feature.properties.coordTimes
      stamped == /\ Has(coordTimes)
                 /\ i < Len(Val(coordTimes))
                 /\ Has(Val(coordTimes)[i + 1])
  IN Point(coord[2], coord[1], CoordAt(coord, 2),
           IF stamped THEN Val(coordTimes)[i + 1] ELSE Undefined,
           Undefined, Undefined, Undefined, Undefined)

LineStringPoints(feature, lineString) ==
  [i \in 1..Len(lineString) |-> GpxPoint(feature, lineString, i - 1)]

RECURSIVE CoordsPoints(_, _, _)
\* for (const lineString of coords), from the k-th (1-based) on
CoordsPoints(feature, coords, k) ==
  IF k > Len(coords) THEN << >>
  ELSE LineStringPoints(feature, coords[k])
         \o CoordsPoints(feature, coords, k + 1)

IsLine(feature) ==
  feature.geometry.type \in {"LineString", "MultiLineString"}

\* One turn of for (const feature of geoJson.features).
GpxFeatureStep(state, feature) ==
  IF ~IsLine(feature) THEN state
  ELSE LET coords == IF feature.geometry.type = "LineString"
                     THEN << feature.geometry.coordinates >>
                     ELSE feature.geometry.coordinates
       IN [points |-> state.points \o CoordsPoints(feature, coords, 1),
           name |-> IF Has(feature.properties.name)
                    THEN Val(feature.properties.name) ELSE state.name,
           date |-> IF Has(feature.properties.time)
                    THEN feature.properties.time ELSE state.date]

RECURSIVE GpxFeatureLoop(_, _, _)
GpxFeatureLoop(features, state, k) ==
  IF k > Len(features) THEN state
  ELSE GpxFeatureLoop(features, GpxFeatureStep(state, features[k]), k + 1)

\* Lines 15-57 of parseGPXFile: points, name and date after the loop.
GpxExtract(doc) ==
  GpxFeatureLoop(doc.geoJson.features,
                 [points |-> << >>,
                  name |-> ReplaceExtension(doc.fileName, ".gpx"),
                  date |-> Undefined],
                 1)

\* The Activity parseGPXFile returns.
GpxActivity(extract) ==
  LET m == calculateBasicMetrics(extract.points)
  IN [name |-> Some(extract.name),
      date |-> extract.date,
      points |-> extract.points,
      totalDistance |-> m.totalDistance,
      totalElevationGain |-> m.totalElevationGain,
      totalTime |-> m.totalTime,
      averagePace |-> m.averagePace,
      averageHR |-> Undefined,
      maxHR |-> Undefined,
      bounds |-> m.bounds]

\* ---- parseFITFile

\* Semicircles are counted in units of 2^23, so that 2^31 semicircles are
\* 256 units: (semicircles * 180) / Math.pow(2, 31).
convertSemicirclesToDegrees(semicircles) ==
  IF ~Has(semicircles) THEN NaN
  ELSE (Val(semicircles) * 180 * Scale) \div 256

\* The Point of a record, lines 76-92.
FitPoint(record) ==
  Point(convertSemicirclesToDegrees(
          Or(Or(record.positionLat, record.position_lat),
             record.enhancedLatitude)),
        convertSemicirclesToDegrees(
          Or(Or(record.positionLong, record.position_long),
             record.enhancedLongitude)),
        Or(Or(record.altitude, record.enhancedAltitude),
           record.enhanced_altitude),
        IF Has(record.timestamp) THEN record.timestamp ELSE Undefined,
        Or(record.heartRate, record.heart_rate),
        record.cadence,
        record.power,
        record.temperature)

\* for (const record of records), every point kept.
FitPointsUnfiltered(records) ==
  [i \in 1..Len(records) |-> FitPoint(records[i])]

\* for (const record of records): the points whose lat and lng are numbers.
FitPoints(records) ==
  SelectSeq([i \in 1..Len(records) |-> FitPoint(records[i])],
            LAMBDA point : ~isNaN(point.lat) /\ ~isNaN(point.lng))

\* messages.sessionMesgs[0], or null.
SessionMessage(messages) ==
  IF Len(messages.sessionMesgs) > 0 THEN Some(messages.sessionMesgs[1])
  ELSE Undefined

\* sessionMessage?.field
SessionField(sessionMessage, field) ==
  IF Has(sessionMessage) THEN Val(sessionMessage)[field] ELSE Undefined

\* Lines 27-48: name from the file, then from the first sport message.
FitName(doc) ==
  LET sportMesgs == doc.messages.sportMesgs
      stem == ReplaceExtension(doc.fileName, ".fit")
  IN IF Len(sportMesgs) = 0 THEN stem
     ELSE IF Has(sportMesgs[1].name) THEN Val(sportMesgs[1].name)
     ELSE IF Has(sportMesgs[1].sport) THEN Val(sportMesgs[1].sport)
     ELSE stem

calculateMetricsFromFIT(points, sessionMessage) ==
  LET t == TotalsLoop(points, TotalsStart, 1)
      totalTime == TimeSpan(points)
  IN [totalDistance |-> t.totalDistance,
      totalElevationGain |-> t.totalElevationGain,
      totalTime |-> totalTime,
      averagePace |-> IF totalTime > 0 THEN Divide(totalTime, t.totalDistance)
                      ELSE 0,
      averageHR |-> IF t.hrCount > 0 THEN Some(t.hrSum \div t.hrCount)
                    ELSE Undefined,
      maxHR |-> IF t.maxHR > 0 THEN Some(t.maxHR) ELSE Undefined,
      bounds |-> Bounds(t)]

\* The Activity parseFITFile returns, lines 103-117.
FitActivity(doc, points) ==
  LET sessionMessage == SessionMessage(doc.messages)
      m == calculateMetricsFromFIT(points, sessionMessage)
      sport == SessionField(sessionMessage, "sport")
      Session(field) == SessionField(sessionMessage, field)
  IN [name |-> IF Has(sport) THEN Some(Val(sport) \o " Activity")
               ELSE Some(FitName(doc)),
      date |-> Session("startTime"),
      points |-> points,
      totalDistance |-> Val(Or(Session("totalDistance"),
                               Some(m.totalDistance))),
      totalElevationGain |-> Val(Or(Session("totalAscent"),
                                    Some(m.totalElevationGain))),
      totalTime |-> Val(Or(Or(Session("totalElapsedTime"),
                              Session("totalTimerTime")),
                           Some(m.totalTime))),
      averagePace |-> m.averagePace,
      averageHR |-> Or(Session("avgHeartRate"), m.averageHR),
      maxHR |-> Or(Session("maxHeartRate"), m.maxHR),
      bounds |-> m.bounds]

\* ---- parseTCXFile

\* parseFloat of an element's number; NaN when the element is missing.
parseFloat(element) == IF Has(element) THEN Val(element) ELSE NaN

\* parseInt of an element's number (not negative): its integer part.
parseInt(element) == (Val(element) \div Scale) * Scale

\* value ? parse(value) : undefined
WhenTruthy(element, parsedValue) ==
  IF Truthy(element) THEN Some(parsedValue) ELSE Undefined

\* The Point of a trackpoint that has a Position, lines 53-68.
\* HeartRateBpmValue is tp.HeartRateBpm?.Value and ExtensionsWatts is
\* tp.Extensions?.TPX?.Watts.
TcxPoint(tp) ==
  Point(parseFloat(Val(tp.Position).LatitudeDegrees),
        parseFloat(Val(tp.Position).LongitudeDegrees),
        WhenTruthy(tp.AltitudeMeters, parseFloat(tp.AltitudeMeters)),
        IF Has(tp.Time) THEN tp.Time ELSE Undefined,
        WhenTruthy(tp.HeartRateBpmValue, parseInt(tp.HeartRateBpmValue)),
        WhenTruthy(tp.Cadence, parseInt(tp.Cadence)),
        IF Truthy(tp.ExtensionsWatts) THEN Some(parseFloat(tp.ExtensionsWatts))
        ELSE IF Truthy(tp.Watts) THEN Some(parseFloat(tp.Watts))
        ELSE Undefined,
        WhenTruthy(tp.ExtensionsWatts, parseFloat(tp.ExtensionsWatts)))

\* for (const tp of trackpoints): skip those without Position, keep the
\* points whose lat and lng are numbers.
TrackpointsPoints(trackpoints) ==
  LET positioned == SelectSeq(trackpoints, LAMBDA tp : Has(tp.Position))
  IN SelectSeq([i \in 1..Len(positioned) |-> TcxPoint(positioned[i])],
               LAMBDA point : ~isNaN(point.lat) /\ ~isNaN(point.lng))

RECURSIVE LapsPoints(_, _)
\* for (const lap of laps), from the k-th (1-based) on
LapsPoints(laps, k) ==
  IF k > Len(laps) THEN << >>
  ELSE (IF Has(laps[k].Track)
        THEN TrackpointsPoints(Val(laps[k].Track).Trackpoint)
        ELSE << >>)
         \o LapsPoints(laps, k + 1)

\* A slip: the totals of the first lap taken for those of the activity.
SumLapsFirstOnly(laps, field, k) ==
  IF k > Len(laps) THEN 0 ELSE OrZero(laps[k][field])

RECURSIVE SumLaps(_, _, _)
\* laps.reduce((sum, lap) => sum + (lap[field] ? parseFloat(lap[field]) : 0), 0)
SumLaps(laps, field, k) ==
  IF k > Len(laps) THEN 0
  ELSE OrZero(laps[k][field]) + SumLaps(laps, field, k + 1)

calculateTCXMetrics(points, tcxActivity) ==
  LET t == TotalsLoop(points, TotalsStart, 1)
      activityDistance == SumLaps(tcxActivity.Lap, "DistanceMeters", 1)
      declaredTime == SumLaps(tcxActivity.Lap, "TotalTimeSeconds", 1)
      activityTime == IF declaredTime = 0 THEN TimeSpan(points)
                      ELSE declaredTime
  IN [totalDistance |-> IF activityDistance # 0 THEN activityDistance
                        ELSE t.totalDistance,
      totalElevationGain |-> t.totalElevationGain,
      totalTime |-> activityTime,
      averagePace |->
        IF activityTime > 0
        THEN Divide(activityTime, Quot(activityDistance, Num(1000)))
        ELSE 0,
      averageHR |-> IF t.hrCount > 0 THEN Some(t.hrSum \div t.hrCount)
                    ELSE Undefined,
      maxHR |-> IF t.maxHR > 0 THEN Some(t.maxHR) ELSE Undefined,
      bounds |-> Bounds(t)]

\* const activity = activityList[0], of a document that has activities
FirstActivity(doc) == Val(doc.activities)[1]

\* The Activity parseTCXFile returns, lines 80-94.
TcxActivity(doc, points) ==
  LET tcxActivity == FirstActivity(doc)
      m == calculateTCXMetrics(points, tcxActivity)
  IN [name |-> IF Has(tcxActivity.Sport) THEN tcxActivity.Sport
               ELSE Some(ReplaceExtension(doc.fileName, ".tcx")),
      date |-> tcxActivity.Id,
      points |-> points,
      totalDistance |-> m.totalDistance,
      totalElevationGain |-> m.totalElevationGain,
      totalTime |-> m.totalTime,
      averagePace |-> m.averagePace,
      averageHR |-> m.averageHR,
      maxHR |-> m.maxHR,
      bounds |-> m.bounds]

\* ---- the documents

\* An instant of a document, the k-th minute after T0.
Minute(k) == Some(T0 + k * 60 * 1000)

\* The meridians of the GPX and TCX documents: one inside [-180, 180], one
\* outside.
Meridians == {Num(10), Num(190)}

\* Coordinates [lng, lat] and [lng, lat, ele] on a meridian, the last one
\* beyond the pole.
GpxCoords(lng) ==
  { << lng, 0 >>,
    << lng, Num(45), Num(100) >>,
    << lng, Num(46), 0 >>,
    << lng, Num(47), Num(200) >>,
    << lng, Num(95), Num(50) >> }

LineStrings(lng, maxLen) ==
  UNION {[1..n -> GpxCoords(lng)] : n \in 0..maxLen}

Feature(type, coordinates, name, time, coordTimes) ==
  [geometry |-> [type |-> type, coordinates |-> coordinates],
   properties |-> [name |-> name, time |-> time, coordTimes |-> coordTimes]]

\* A waypoint: a feature that is no line.
Waypoint(lng) ==
  Feature("Point", << lng, Num(45) >>, Some("summit"), Undefined, Undefined)

\* A track of one segment; stamped: with a time for every second coordinate.
LineFeature(lineString, stamped) ==
  Feature("LineString", lineString,
          IF stamped THEN Some("morning run") ELSE Undefined,
          IF stamped THEN Minute(0) ELSE Undefined,
          IF stamped
          THEN Some([i \in 1..Len(lineString) |->
                       IF i % 2 = 1 THEN Minute(i) ELSE Undefined])
          ELSE Undefined)

\* A track of two segments, without times.
MultiLineFeature(first, second) ==
  Feature("MultiLineString", << first, second >>, Undefined, Undefined,
          Undefined)

LineFeatures(lng) ==
  {LineFeature(ls, stamped) :
     ls \in LineStrings(lng, MaxSamples), stamped \in BOOLEAN}

MultiLineFeatures(lng) ==
  {MultiLineFeature(a, b) :
     a \in LineStrings(lng, 1), b \in LineStrings(lng, 1)}

GpxDocument(features) ==
  [fileName |-> [stem |-> "run", extension |-> ".gpx"],
   geoJson |-> [features |-> features]]

\* The GeoJSON documents: no feature; a waypoint alone; a track of one or of
\* two segments, alone, before a waypoint, or before a second track.
IsGpxDocument(doc) ==
  \E lng \in Meridians :
    LET second == LineFeature(<< << lng, Num(44), Num(90) >> >>, FALSE)
    IN \/ doc = GpxDocument(<< >>)
       \/ doc = GpxDocument(<< Waypoint(lng) >>)
       \/ \E first \in LineFeatures(lng) :
            \/ doc = GpxDocument(<< first >>)
            \/ doc = GpxDocument(<< first, Waypoint(lng) >>)
            \/ doc = GpxDocument(<< first, second >>)
       \/ \E first \in MultiLineFeatures(lng) :
            \/ doc = GpxDocument(<< first >>)
            \/ doc = GpxDocument(<< first, second >>)

\* A record message: every field absent but those given.
NoRecord ==
  [positionLat |-> Undefined, position_lat |-> Undefined,
   enhancedLatitude |-> Undefined,
   positionLong |-> Undefined, position_long |-> Undefined,
   enhancedLongitude |-> Undefined,
   altitude |-> Undefined, enhancedAltitude |-> Undefined,
   enhanced_altitude |-> Undefined,
   timestamp |-> Undefined, heartRate |-> Undefined, heart_rate |-> Undefined,
   cadence |-> Undefined, power |-> Undefined, temperature |-> Undefined]

\* The record messages of a document whose longitude is lng semicircles
\* (in units of 2^23; 64 units are 45 degrees): at 45 degrees north; on the
\* equator; under the older spellings; at 135 degrees, beyond the pole;
\* without position; with a zero ahead of a later candidate.
FitRecords(lng) ==
  { [NoRecord EXCEPT !.positionLat = Some(64), !.positionLong = Some(lng),
                     !.altitude = Some(Num(100)), !.heartRate = Some(Num(150)),
                     !.timestamp = Minute(0), !.cadence = Some(Num(80))],
    [NoRecord EXCEPT !.positionLat = Some(0), !.positionLong = Some(lng),
                     !.altitude = Some(0), !.heartRate = Some(Num(140)),
                     !.timestamp = Minute(1)],
    [NoRecord EXCEPT !.position_lat = Some(32), !.position_long = Some(lng),
                     !.enhanced_altitude = Some(Num(200)),
                     !.heart_rate = Some(Num(120)), !.timestamp = Minute(2),
                     !.power = Some(Num(250))],
    [NoRecord EXCEPT !.positionLat = Some(192), !.positionLong = Some(lng),
                     !.altitude = Some(Num(50)), !.heartRate = Some(Num(170))],
    [NoRecord EXCEPT !.heartRate = Some(Num(160)), !.timestamp = Minute(3)],
    [NoRecord EXCEPT !.positionLat = Some(0), !.enhancedLatitude = Some(16),
                     !.positionLong = Some(lng),
                     !.altitude = Some(0), !.enhancedAltitude = Some(Num(300)),
                     !.heartRate = Some(0), !.temperature = Some(Num(20))] }

NoSession ==
  [sport |-> Undefined, startTime |-> Undefined, totalDistance |-> Undefined,
   totalAscent |-> Undefined, totalElapsedTime |-> Undefined,
   totalTimerTime |-> Undefined, avgHeartRate |-> Undefined,
   maxHeartRate |-> Undefined]

\* sessionMesgs: none; a session without totals; a session with them; a
\* session whose totals are 0.
SessionMesgs ==
  { << >>,
    << NoSession >>,
    << [sport |-> Some("running"), startTime |-> Minute(0),
        totalDistance |-> Some(Num(1000)), totalAscent |-> Some(Num(30)),
        totalElapsedTime |-> Some(Num(600)), totalTimerTime |-> Some(Num(540)),
        avgHeartRate |-> Some(Num(145)), maxHeartRate |-> Some(Num(175))] >>,
    << [NoSession EXCEPT !.totalDistance = Some(0), !.totalAscent = Some(0),
                         !.totalTimerTime = Some(Num(540)),
                         !.maxHeartRate = Some(0)] >> }

SportMesgs ==
  { << >>,
    << [name |-> Some("trail"), sport |-> Some("running")] >>,
    << [name |-> Undefined, sport |-> Some("cycling")] >> }

\* What the Decoder holds: the verdict of checkIntegrity and the messages
\* read returns.  recordMesgs is absent or an array.
IsFitDocument(doc) ==
  \E lng \in {0, 64}, integrity \in BOOLEAN,
     sessionMesgs \in SessionMesgs, sportMesgs \in SportMesgs :
    \E recordMesgs \in
         {Undefined}
           \cup {Some(r) :
                   r \in UNION {[1..n -> FitRecords(lng)] :
                                  n \in 0..MaxSamples}} :
      doc = [fileName |-> [stem |-> "ride", extension |-> ".fit"],
             integrity |-> integrity,
             messages |-> [sessionMesgs |-> sessionMesgs,
                           sportMesgs |-> sportMesgs,
                           recordMesgs |-> recordMesgs]]

\* A Trackpoint: every element absent but those given.
NoTrackpoint ==
  [Position |-> Undefined, AltitudeMeters |-> Undefined, Time |-> Undefined,
   HeartRateBpmValue |-> Undefined, Cadence |-> Undefined,
   ExtensionsWatts |-> Undefined, Watts |-> Undefined]

Position(lat, lng) ==
  Some([LatitudeDegrees |-> lat, LongitudeDegrees |-> lng])

\* The Trackpoints of a document on the meridian lng: at 45 degrees north;
\* on the equator at sea level with a heart rate of 0; at 46 degrees with
\* power; at 95 degrees, beyond the pole; without Position; with a Position
\* that has no LatitudeDegrees.
Trackpoints(lng) ==
  { [NoTrackpoint EXCEPT !.Position = Position(Some(Num(45)), Some(lng)),
                         !.AltitudeMeters = Some(Num(100)),
                         !.Time = Minute(0),
                         !.HeartRateBpmValue = Some(Num(150) + Half),
                         !.Cadence = Some(Num(80))],
    [NoTrackpoint EXCEPT !.Position = Position(Some(0), Some(lng)),
                         !.AltitudeMeters = Some(0),
                         !.Time = Minute(1),
                         !.HeartRateBpmValue = Some(0)],
    [NoTrackpoint EXCEPT !.Position = Position(Some(Num(46)), Some(lng)),
                         !.AltitudeMeters = Some(Num(200)),
                         !.Time = Minute(2),
                         !.HeartRateBpmValue = Some(Num(170)),
                         !.ExtensionsWatts = Some(Num(250))],
    [NoTrackpoint EXCEPT !.Position = Position(Some(Num(95)), Some(lng)),
                         !.AltitudeMeters = Some(Num(50)),
                         !.Watts = Some(Num(200))],
    [NoTrackpoint EXCEPT !.HeartRateBpmValue = Some(Num(160)),
                         !.Time = Minute(3)],
    [NoTrackpoint EXCEPT !.Position = Position(Undefined, Some(lng)),
                         !.Time = Minute(4)] }

\* A Lap: with or without the totals it declares, with or without a Track.
Lap(declares, track) ==
  [DistanceMeters |-> IF declares THEN Some(Num(1000)) ELSE Undefined,
   TotalTimeSeconds |-> IF declares THEN Some(Num(300)) ELSE Undefined,
   Track |-> track]

Tracks(lng, maxLen) ==
  {Undefined}
    \cup {Some([Trackpoint |-> trackpoints]) :
            trackpoints \in UNION {[1..n -> Trackpoints(lng)] :
                                     n \in 1..maxLen}}

TcxDocument(activities) ==
  [fileName |-> [stem |-> "swim", extension |-> ".tcx"],
   activities |-> activities]

\* An Activity element of the document.
TcxActivityElement(named, laps) ==
  [Sport |-> IF named THEN Some("Running") ELSE Undefined,
   Id |-> IF named THEN Minute(0) ELSE Undefined,
   Lap |-> laps]

\* What fast-xml-parser delivers, activities being
\* database.Activities?.Activity || database.Activity: no activity; one
\* activity without a lap; one activity of one lap, or of two, the second
\* one short.
IsTcxDocument(doc) ==
  \E lng \in Meridians, named \in BOOLEAN :
    \/ doc = TcxDocument(Undefined)
    \/ doc = TcxDocument(Some(<< TcxActivityElement(named, << >>) >>))
    \/ \E declares \in BOOLEAN, track \in Tracks(lng, MaxSamples) :
         \/ doc = TcxDocument(Some(<< TcxActivityElement(
                    named, << Lap(declares, track) >>) >>))
         \/ \E more \in Tracks(lng, 1) :
              doc = TcxDocument(Some(<< TcxActivityElement(
                      named, << Lap(declares, track),
                                Lap(declares, more) >>) >>))

\* ---- the adapter machine

\* An adapter is called with a file; processActivity and percentile are not
\* at work.
InitAdapters ==
  /\ activity = ActivityOf(<< >>)
  /\ pc = "idle"
  /\ processedPoints = << >>
  /\ normalizedPoints = << >>
  /\ splits = << >>
  /\ fastestSplit = Undefined
  /\ steepestClimb = Undefined
  /\ maxHRSegment = Undefined
  /\ result = Undefined
  /\ values = << >>
  /\ p = Frac(0, 1)
  /\ percentileResult = Undefined
  /\ \/ format = "gpx" /\ adapterPc = "gpx:features"
          /\ IsGpxDocument(document)
     \/ format = "fit" /\ adapterPc = "fit:checkIntegrity"
          /\ IsFitDocument(document)
     \/ format = "tcx" /\ adapterPc = "tcx:activities"
          /\ IsTcxDocument(document)
  /\ decoderCalls = << >>
  /\ parsedPoints = << >>
  /\ parsed = Undefined
  /\ thrown = Undefined
  /\ HaversineIdle
  /\ StudioIdle

\* throw new Error(message)
Throw(message) ==
  /\ thrown' = Some(Error(message))
  /\ adapterPc' = "failed"

\* return activity
ReturnActivity(a) ==
  /\ parsed' = Some(a)
  /\ adapterPc' = "returned"

\* if (!geoJson.features || geoJson.features.length === 0) throw ...
GpxCheckFeatures ==
  /\ adapterPc = "gpx:features"
  /\ IF Len(document.geoJson.features) = 0
     THEN Throw("No tracks found in GPX file")
     ELSE adapterPc' = "gpx:points" /\ UNCHANGED thrown
  /\ UNCHANGED << pipelineVars, percentileVars, haversineVars, studioVars,
                  format, document,
                  decoderCalls, parsedPoints, parsed >>

\* for (const feature of geoJson.features) ...
GpxCollectPoints ==
  /\ adapterPc = "gpx:points"
  /\ parsedPoints' = GpxExtract(document).points
  /\ adapterPc' = "gpx:finish"
  /\ UNCHANGED << pipelineVars, percentileVars, haversineVars, studioVars,
                  format, document,
                  decoderCalls, parsed, thrown >>

\* if (points.length === 0) throw ...; return { name, date, points, ... }
GpxFinish ==
  /\ adapterPc = "gpx:finish"
  /\ IF Len(parsedPoints) = 0
     THEN Throw("No valid track points found in GPX file") /\ UNCHANGED parsed
     ELSE ReturnActivity(GpxActivity(GpxExtract(document)))
            /\ UNCHANGED thrown
  /\ UNCHANGED << pipelineVars, percentileVars, haversineVars, studioVars,
                  format, document,
                  decoderCalls, parsedPoints >>

\* decoder.checkIntegrity(), with every file passing.
checkIntegrityAlwaysPasses(doc) == TRUE

\* decoder.checkIntegrity()
checkIntegrity(doc) == doc.integrity

\* if (!decoder.checkIntegrity()) throw ...
FitCheckIntegrity ==
  /\ adapterPc = "fit:checkIntegrity"
  /\ decoderCalls' = Append(decoderCalls, "checkIntegrity")
  /\ IF ~checkIntegrity(document)
     THEN Throw("FIT file integrity check failed")
     ELSE adapterPc' = "fit:read" /\ UNCHANGED thrown
  /\ UNCHANGED << pipelineVars, percentileVars, haversineVars, studioVars,
                  format, document,
                  parsedPoints, parsed >>

\* const result = decoder.read(); ... for (const record of records) ...
FitRead ==
  /\ adapterPc = "fit:read"
  /\ decoderCalls' = Append(decoderCalls, "read")
  /\ LET recordMesgs == document.messages.recordMesgs
         records == IF Has(recordMesgs) THEN Val(recordMesgs) ELSE << >>
     IN parsedPoints' = FitPoints(records)
  /\ adapterPc' = "fit:finish"
  /\ UNCHANGED << pipelineVars, percentileVars, haversineVars, studioVars,
                  format, document,
                  parsed, thrown >>

\* if (points.length === 0) throw ...; return { ... }
FitFinish ==
  /\ adapterPc = "fit:finish"
  /\ IF Len(parsedPoints) = 0
     THEN Throw("No valid track points found in FIT file") /\ UNCHANGED parsed
     ELSE ReturnActivity(FitActivity(document, parsedPoints))
            /\ UNCHANGED thrown
  /\ UNCHANGED << pipelineVars, percentileVars, haversineVars, studioVars,
                  format, document,
                  decoderCalls, parsedPoints >>

\* if (!activities) throw ...
TcxCheckActivities ==
  /\ adapterPc = "tcx:activities"
  /\ IF ~Has(document.activities)
     THEN Throw("No activities found in TCX file")
     ELSE adapterPc' = "tcx:points" /\ UNCHANGED thrown
  /\ UNCHANGED << pipelineVars, percentileVars, haversineVars, studioVars,
                  format, document,
                  decoderCalls, parsedPoints, parsed >>

\* for (const lap of laps) ...
TcxCollectPoints ==
  /\ adapterPc = "tcx:points"
  /\ parsedPoints' = LapsPoints(FirstActivity(document).Lap, 1)
  /\ adapterPc' = "tcx:finish"
  /\ UNCHANGED << pipelineVars, percentileVars, haversineVars, studioVars,
                  format, document,
                  decoderCalls, parsed, thrown >>

\* if (points.length === 0) throw ...; return { ... }
TcxFinish ==
  /\ adapterPc = "tcx:finish"
  /\ IF Len(parsedPoints) = 0
     THEN Throw("No valid track points found in TCX file") /\ UNCHANGED parsed
     ELSE ReturnActivity(TcxActivity(document, parsedPoints))
            /\ UNCHANGED thrown
  /\ UNCHANGED << pipelineVars, percentileVars, haversineVars, studioVars,
                  format, document,
                  decoderCalls, parsedPoints >>

NextAdapters ==
  \/ GpxCheckFeatures
  \/ GpxCollectPoints
  \/ GpxFinish
  \/ FitCheckIntegrity
  \/ FitRead
  \/ FitFinish
  \/ TcxCheckActivities
  \/ TcxCollectPoints
  \/ TcxFinish

SpecAdapters == InitAdapters /\ [][NextAdapters]_vars

\* ------------------------------------------------- the haversine machine

\* The latitudes and longitudes of the grid, 15 apart.
GridCoordinates == {k * Num(15) : k \in (-GridSteps)..GridSteps}

\* A point of the grid, with or without the optional fields.
GridPoint(lat, lng, full) ==
  IF full
  THEN Point(lat, lng, Some(Num(100)), Minute(1), Some(Num(150)),
             Some(Num(80)), Some(Num(200)), Some(Num(20)))
  ELSE Point(lat, lng, Undefined, Undefined, Undefined, Undefined, Undefined,
             Undefined)

\* haversineDistance is about to be called on two points of one meridian
\* or of the equator.
InitHaversine ==
  /\ activity = ActivityOf(<< >>)
  /\ pc = "idle"
  /\ processedPoints = << >>
  /\ normalizedPoints = << >>
  /\ splits = << >>
  /\ fastestSplit = Undefined
  /\ steepestClimb = Undefined
  /\ maxHRSegment = Undefined
  /\ result = Undefined
  /\ values = << >>
  /\ p = Frac(0, 1)
  /\ percentileResult = Undefined
  /\ AdapterIdle
  /\ StudioIdle
  /\ \E a \in GridCoordinates, b \in GridCoordinates, c \in GridCoordinates,
        full \in BOOLEAN :
       \/ pointA = GridPoint(a, c, full) /\ pointB = GridPoint(b, c, ~full)
       \/ pointA = GridPoint(0, a, full) /\ pointB = GridPoint(0, b, ~full)
  /\ distances = Undefined

\* haversineDistance(a, b), haversineDistance(b, a), haversineDistance(a, a)
\* and haversineDistance(b, b) return.
CallHaversine ==
  /\ distances = Undefined
  /\ distances' = Some([ab |-> haversineDistance(pointA, pointB),
                        ba |-> haversineDistance(pointB, pointA),
                        aa |-> haversineDistance(pointA, pointA),
                        bb |-> haversineDistance(pointB, pointB)])
  /\ UNCHANGED << pipelineVars, percentileVars, adapterVars, studioVars,
                  pointA, pointB >>

NextHaversine == CallHaversine

SpecHaversine == InitHaversine /\ [][NextHaversine]_vars

\* ------------------------------------------------------------- the Studio

\* The number of files the user hands to the Studio.
MaxFiles == 3

\* The files a user can pick or drop: by the end of their name, and by
\* whether their adapter parses them.
Files == [extension : {".gpx", ".fit", ".tcx"}, parses : BOOLEAN]

\* fileName.endsWith('.gpx') || fileName.endsWith('.fit')
Supported(file) == file.extension \in {".gpx", ".fit"}

\* setActivity(processed) for the call'th file handed to processFile.
Processed(call) ==
  Some([name |-> submitted[call].extension, file |-> call])

\* The Studio is mounted; processActivity, percentile, the adapters and
\* haversineDistance are not at work on their own.
InitStudio ==
  /\ activity = ActivityOf(<< >>)
  /\ pc = "idle"
  /\ processedPoints = << >>
  /\ normalizedPoints = << >>
  /\ splits = << >>
  /\ fastestSplit = Undefined
  /\ steepestClimb = Undefined
  /\ maxHRSegment = Undefined
  /\ result = Undefined
  /\ values = << >>
  /\ p = Frac(0, 1)
  /\ percentileResult = Undefined
  /\ AdapterIdle
  /\ HaversineIdle
  /\ StudioIdle

\* processFile(file) up to its first await: setIsProcessing(true),
\* setError(null), and either the adapter called and awaited or, for a name
\* that ends neither in .gpx nor in .fit, the Error thrown, caught and
\* finally setIsProcessing(false).
ProcessFileStart(file) ==
  /\ submitted' = Append(submitted, file)
  /\ IF Supported(file)
     THEN /\ isProcessing' = TRUE
          /\ studioError' = Undefined
          /\ inFlight' = inFlight \cup {Len(submitted) + 1}
     ELSE /\ isProcessing' = FALSE
          /\ studioError' =
               Some("Unsupported file format. Please upload a GPX or FIT file.")
          /\ UNCHANGED inFlight
  /\ UNCHANGED studioActivity

\* The upload area is rendered: {!activity && (...)}.
UploadAreaMounted == ~Has(studioActivity)

\* The file input takes a file: it is rendered and not disabled={isProcessing}.
FileInputEnabled == UploadAreaMounted /\ ~isProcessing

\* handleFileUpload: the user picks a file in the file input.
HandleFileUpload ==
  /\ FileInputEnabled
  /\ Len(submitted) < MaxFiles
  /\ \E file \in Files : ProcessFileStart(file)
  /\ UNCHANGED << pipelineVars, percentileVars, adapterVars, haversineVars,
                  isDragging >>

\* handleDragOver
HandleDragOver ==
  /\ UploadAreaMounted
  /\ isDragging' = TRUE
  /\ UNCHANGED << pipelineVars, percentileVars, adapterVars, haversineVars,
                  isProcessing, studioError, studioActivity, submitted,
                  inFlight >>

\* handleDragLeave
HandleDragLeave ==
  /\ UploadAreaMounted
  /\ isDragging' = FALSE
  /\ UNCHANGED << pipelineVars, percentileVars, adapterVars, haversineVars,
                  isProcessing, studioError, studioActivity, submitted,
                  inFlight >>

\* handleDrop: the user drops a file on the upload area; a file that is
\* neither .gpx nor .fit is not found and only sets the error.
HandleDrop ==
  /\ UploadAreaMounted
  /\ Len(submitted) < MaxFiles
  /\ isDragging' = FALSE
  /\ \E file \in Files :
       IF Supported(file)
       THEN ProcessFileStart(file)
       ELSE /\ studioError' = Some("Please drop a GPX or FIT file")
            /\ UNCHANGED << isProcessing, studioActivity, submitted,
                            inFlight >>
  /\ UNCHANGED << pipelineVars, percentileVars, adapterVars, haversineVars >>

\* processFile resumes after its await: the adapter's promise has settled.
\* setActivity(processed), or setError(err.message) in the catch; finally
\* setIsProcessing(false).
ProcessFileResume ==
  /\ \E call \in inFlight :
       /\ IF submitted[call].parses
          THEN studioActivity' = Processed(call) /\ UNCHANGED studioError
          ELSE studioError' = Some("Failed to parse file")
                 /\ UNCHANGED studioActivity
       /\ inFlight' = inFlight \ {call}
  /\ isProcessing' = FALSE
  /\ UNCHANGED << pipelineVars, percentileVars, adapterVars, haversineVars,
                  isDragging, submitted >>

\* The button Upload New File: onClick={() => setActivity(null)}.
UploadNewFile ==
  /\ Has(studioActivity)
  /\ studioActivity' = Undefined
  /\ UNCHANGED << pipelineVars, percentileVars, adapterVars, haversineVars,
                  isProcessing, studioError, isDragging, submitted,
                  inFlight >>

NextStudio ==
  \/ HandleFileUpload
  \/ HandleDragOver
  \/ HandleDragLeave
  \/ HandleDrop
  \/ ProcessFileResume
  \/ UploadNewFile

SpecStudio == InitStudio /\ [][NextStudio]_vars

\* ------------------------------------------------------------- the claims

\* The statements of processActivity that have run.
Computed == pc \notin {"idle", "computeMetrics", "raised"}

Normalized == Computed /\ pc # "normalizeMetrics"

SplitsDone == Normalized /\ pc # "detectSplits"

FastestDone == SplitsDone /\ pc # "findFastestSplit"

ClimbDone == FastestDone /\ pc # "findSteepestClimb"

MaxHRDone == ClimbDone /\ pc # "findMaxHRSegment"

PointFields == {"lat", "lng", "ele", "time", "hr", "cadence", "power", "temp"}

\* processed has one element per point, carrying that point's fields.
CarriesPoints(processed, points) ==
  /\ Len(processed) = Len(points)
  /\ \A i \in 1..Len(points) :
       \A f \in PointFields : processed[i][f] = points[i][f]

\* C1: processedPoints has exactly as many elements as activity.points, and
\* its i-th element carries the lat, lng, ele, time, hr, cadence, power and
\* temp of the i-th point, after computeMetrics, after normalizeMetrics and in
\* the ProcessedActivity returned.
C1_LengthAndOrderPreserved ==
  /\ Computed => CarriesPoints(processedPoints, activity.points)
  /\ Normalized => CarriesPoints(normalizedPoints, activity.points)
  /\ pc = "returned" =>
       CarriesPoints(Val(result).processedPoints, activity.points)

\* C1's case: a returned track of three or more distinct points, a field
\* present on one point and absent on another.
C1_Witness ==
  /\ pc = "returned"
  /\ Len(activity.points) >= 3
  /\ activity.points[1] # activity.points[2]
  /\ \E i, j \in 1..Len(activity.points) :
       Has(activity.points[i].hr) /\ ~Has(activity.points[j].hr)

\* The cumulative distances of processed start at 0 with pace 0 and grade 0,
\* never decrease, and grow by the geodesic distance of consecutive points.
DistancesOf(processed, points) ==
  \A i \in 1..Len(processed) :
    /\ i = 1 => /\ processed[i].distance = 0
                /\ processed[i].pace = 0
                /\ processed[i].grade = 0
    /\ i > 1 => /\ processed[i].distance >= processed[i - 1].distance
                /\ processed[i].distance - processed[i - 1].distance
                     = haversineDistance(points[i - 1], points[i])

\* C2: index 0 has distance 0, pace 0 and grade 0; for i > 0 the cumulative
\* distance does not decrease and grows by the geodesic distance between
\* points i-1 and i.
C2_CumulativeDistance ==
  /\ Computed => DistancesOf(processedPoints, activity.points)
  /\ Normalized => DistancesOf(normalizedPoints, activity.points)

\* C2's case: a time-stamped track that moves and then stands.
C2_Witness ==
  /\ Normalized
  /\ Len(normalizedPoints) >= 3
  /\ Has(activity.points[1].time)
  /\ normalizedPoints[2].distance > 0
  /\ normalizedPoints[3].distance = normalizedPoints[2].distance

\* Every element of seq is the same value (or seq is empty).
AllEqual(seq) == \A i, j \in 1..Len(seq) : seq[i] = seq[j]

\* Every defined points[i][field] lies in [0, 1].
InUnitInterval(points, field) ==
  \A i \in 1..Len(points) :
    Has(points[i][field]) =>
      0 <= Val(points[i][field]) /\ Val(points[i][field]) <= One

\* Every defined points[i][field] is exactly 0.5.
AllHalf(points, field) ==
  \A i \in 1..Len(points) :
    Has(points[i][field]) => Val(points[i][field]) = Half

\* C3: after normalizeMetrics every defined normalizedPace, normalizedHR and
\* normalizedPower lies in [0, 1]; and when the raw values a metric's
\* percentiles are taken over are all equal, or its two percentiles are, every
\* defined normalized value of that metric is exactly 0.5.
C3_NormalizedRange ==
  Normalized =>
    LET paces == Paces(processedPoints)
        hrs == Defined(processedPoints, "hr")
        powers == Defined(processedPoints, "power")
        Flat(raw) == \/ AllEqual(raw)
                     \/ percentile(raw, Frac(95, 100)) = percentile(raw, Frac(5, 100))
    IN /\ InUnitInterval(normalizedPoints, "normalizedPace")
       /\ InUnitInterval(normalizedPoints, "normalizedHR")
       /\ InUnitInterval(normalizedPoints, "normalizedPower")
       /\ Flat(paces) => AllHalf(normalizedPoints, "normalizedPace")
       /\ Flat(hrs) => AllHalf(normalizedPoints, "normalizedHR")
       /\ Flat(powers) => AllHalf(normalizedPoints, "normalizedPower")

\* C3's case: a heart rate normalized strictly inside (0, 1) and off 0.5,
\* and a power metric whose raw values are all equal.
C3_Witness ==
  /\ Normalized
  /\ \E i \in 1..Len(normalizedPoints) :
       /\ Has(normalizedPoints[i].normalizedHR)
       /\ Val(normalizedPoints[i].normalizedHR) \notin {0, Half, One}
  /\ Len(Defined(processedPoints, "power")) >= 2
  /\ AllEqual(Defined(processedPoints, "power"))

\* The 26 points of a track sampled every 100 units over 2,500 units.
IsUniform2500(points) ==
  /\ Len(points) = 26
  /\ \A i \in 1..26 : points[i].lat = (i - 1) * Num(100) /\ points[i].lng = 0

\* The cumulative distance at which the k-th split closes: the distances of
\* the first k splits, which lie end to end from the start of the track.
ClosedAt(k) == SumSeq([j \in 1..Len(splits) |-> splits[j].distance], 0, k)

\* C4: detectSplits emits a Split exactly each time the distance accumulated
\* since the last boundary reaches or exceeds splitDistance: every split is
\* at least splitDistance long and closes at a point before which the
\* accumulated distance was still below splitDistance; what follows the last
\* split is shorter than splitDistance and is not emitted; and the track
\* sampled every 100 units over 2,500 units yields exactly 2 splits, closed
\* at the cumulative distances 1000 and 2000.
C4_SplitsAtEachBoundary ==
  SplitsDone =>
    LET points == normalizedPoints
        splitDistance == Num(1000)
    IN /\ \A k \in 1..Len(splits) :
            /\ splits[k].distance >= splitDistance
            /\ \E i \in 2..Len(points) :
                 /\ points[i].distance = ClosedAt(k)
                 /\ points[i - 1].distance - ClosedAt(k - 1) < splitDistance
       /\ Len(points) > 0 =>
            points[Len(points)].distance - ClosedAt(Len(splits)) < splitDistance
       /\ IsUniform2500(activity.points) =>
            /\ Len(splits) = 2
            /\ ClosedAt(1) = Num(1000)
            /\ ClosedAt(2) = Num(2000)

\* C4's case: detectSplits has run on the track sampled every 100 units over
\* 2,500 units and has emitted its splits.
C4_Witness ==
  /\ SplitsDone
  /\ IsUniform2500(activity.points)
  /\ Len(splits) = 2

\* C5: findMaxHRSegment returns undefined when no point carries heart-rate
\* data; otherwise, with k an index of the greatest heart rate, it returns
\* the segment from max(0, k-30) to min(len-1, k+30).
C5_MaxHRSegmentWindow ==
  MaxHRDone =>
    LET points == normalizedPoints
        len == Len(points)
        Carrying == {i \in 1..len : Has(points[i].hr)}
    IN IF Carrying = {}
       THEN maxHRSegment = Undefined
       ELSE /\ Has(maxHRSegment)
            /\ \E i \in Carrying :
                 /\ \A j \in Carrying : Val(points[j].hr) <= Val(points[i].hr)
                 /\ Val(maxHRSegment).startIndex = Max(0, (i - 1) - 30)
                 /\ Val(maxHRSegment).endIndex = Min(len - 1, (i - 1) + 30)

\* Index j (0-based) lies in the search window of the start index i: the
\* while loop reaches j, the distance from i to j-1 being under 2 * 100.
InSearchWindow(points, i, j) ==
  /\ i < j
  /\ j < Len(points)
  /\ j = i + 1 \/ points[j].distance - points[i + 1].distance < Num(100) * 2

\* No point has an elevation strictly greater than an earlier point of its
\* search window.
NoRise(points) ==
  \A i, j \in 0..(Len(points) - 1) :
    InSearchWindow(points, i, j) =>
      ~(/\ Has(points[i + 1].ele)
        /\ Has(points[j + 1].ele)
        /\ Val(points[j + 1].ele) > Val(points[i + 1].ele))

\* C6: findSteepestClimb returns undefined for every track on which no point
\* has an elevation strictly greater than an earlier point of its search
\* window: so for every track of constant elevation and every track with no
\* elevation data.
C6_NoClimbWithoutRise ==
  ClimbDone => (NoRise(normalizedPoints) => steepestClimb = Undefined)

\* C6's case: findSteepestClimb has run on a track that only descends, over
\* a segment long enough to count.
C6_Witness ==
  /\ ClimbDone
  /\ NoRise(normalizedPoints)
  /\ steepestClimb = Undefined
  /\ \E i, j \in 0..(Len(normalizedPoints) - 1) :
       /\ InSearchWindow(normalizedPoints, i, j)
       /\ Truthy(normalizedPoints[i + 1].ele)
       /\ Truthy(normalizedPoints[j + 1].ele)
       /\ Val(normalizedPoints[j + 1].ele) < Val(normalizedPoints[i + 1].ele)
       /\ normalizedPoints[j + 1].distance - normalizedPoints[i + 1].distance
            >= Num(100)

\* C7: findFastestSplit returns undefined iff the split list is empty;
\* otherwise it returns an element of the list whose average pace is less
\* than or equal to the pace of every other split.
C7_FastestSplitIsMinimum ==
  FastestDone =>
    /\ fastestSplit = Undefined <=> Len(splits) = 0
    /\ Has(fastestSplit) =>
         /\ \E k \in 1..Len(splits) : splits[k] = Val(fastestSplit)
         /\ \A k \in 1..Len(splits) : Val(fastestSplit).pace <= splits[k].pace

\* C7's case: findFastestSplit has chosen among three or more splits, and
\* the fastest is neither the first nor the last of them.
C7_Witness ==
  /\ FastestDone
  /\ Len(splits) >= 3
  /\ Has(fastestSplit)
  /\ Val(fastestSplit).index \notin {0, Len(splits) - 1}
  /\ \A k \in 1..Len(splits) :
       splits[k] # Val(fastestSplit) => splits[k].pace > Val(fastestSplit).pace

\* The element at index (0-based) of values sorted ascending is v: v is one of
\* the values, at most index values are smaller and more than index are not
\* greater.
IsSortedElement(vals, index, v) ==
  /\ \E i \in 1..Len(vals) : vals[i] = v
  /\ Cardinality({i \in 1..Len(vals) : vals[i] < v}) <= index
  /\ Cardinality({i \in 1..Len(vals) : vals[i] <= v}) > index

\* percentile(vals, q) returned r: 0 for an empty input, otherwise the element
\* at index floor(n * q) of the values sorted ascending.
PercentileReturns(vals, q, r) ==
  /\ Len(vals) = 0 => r = 0
  /\ Len(vals) > 0 => IsSortedElement(vals, (Len(vals) * q.num) \div q.den, r)

\* C8 as claimed: for every p in [0, 1], percentile(values, p) is 0 for an
\* empty input and otherwise the element at index floor(n * p) of the values
\* sorted ascending; percentile([1,2,3,4,5], 0.5) = 3.
C8_PercentileOnClosedInterval ==
  Has(percentileResult) =>
    /\ PercentileReturns(values, p, Val(percentileResult))
    /\ (values = << Num(1), Num(2), Num(3), Num(4), Num(5) >> /\ p = Frac(1, 2))
         => Val(percentileResult) = Num(3)

\* C8 as amended: the same for every p in [0, 1), and for p = 1, where the
\* index n lies past the end of the sorted values, the result is 0.
C8_PercentileBelowOne ==
  Has(percentileResult) =>
    /\ p.num < p.den => PercentileReturns(values, p, Val(percentileResult))
    /\ p.num = p.den => Val(percentileResult) = 0
    /\ (values = << Num(1), Num(2), Num(3), Num(4), Num(5) >> /\ p = Frac(1, 2))
         => Val(percentileResult) = Num(3)

\* C8's case: percentile([1,2,3,4,5], 0.5) has returned.
C8_Witness ==
  /\ Has(percentileResult)
  /\ values = << Num(1), Num(2), Num(3), Num(4), Num(5) >>
  /\ p = Frac(1, 2)

\* Every point of the activity is stamped with the same instant.
ZeroDuration ==
  /\ Len(activity.points) >= 1
  /\ \A i \in 1..Len(activity.points) :
       /\ Has(activity.points[i].time)
       /\ activity.points[i].time = activity.points[1].time

\* C10 as claimed: processActivity never raises on an Activity with one or
\* more points, and in the degenerate cases (a single point, zero duration)
\* it returns an empty splits list and absent fastestSplit, steepestClimb
\* and maxHRSegment.
C10_DegenerateCasesReturnNothing ==
  /\ pc # "raised"
  /\ (pc = "returned" /\ (Len(activity.points) = 1 \/ ZeroDuration)) =>
       /\ Val(result).splits = << >>
       /\ Val(result).fastestSplit = Undefined
       /\ Val(result).steepestClimb = Undefined
       /\ Val(result).maxHRSegment = Undefined

\* C10 as amended: processActivity never raises, whatever is missing; for a
\* single-point activity it returns an empty splits list and absent
\* fastestSplit and steepestClimb, and an absent maxHRSegment when the point
\* carries no heart rate.
C10_NeverRaises ==
  /\ pc # "raised"
  /\ (pc = "returned" /\ Len(activity.points) = 1) =>
       /\ Val(result).splits = << >>
       /\ Val(result).fastestSplit = Undefined
       /\ Val(result).steepestClimb = Undefined
       /\ ~Has(activity.points[1].hr) => Val(result).maxHRSegment = Undefined

\* C10's case: processActivity has returned for a single point that carries
\* neither elevation nor timestamp nor heart rate.
C10_Witness ==
  /\ pc = "returned"
  /\ Len(activity.points) = 1
  /\ ~Has(activity.points[1].ele)
  /\ ~Has(activity.points[1].time)
  /\ ~Has(activity.points[1].hr)
  /\ Val(result).splits = << >>

\* C11: after normalizeMetrics, normalizedHR (normalizedPower) of a point is
\* defined exactly when the point carries a raw hr (power) value, a raw value
\* of 0 included, and normalizedPace is defined for every point.
C11_NormalizedIffPresent ==
  Normalized =>
    /\ Len(normalizedPoints) = Len(processedPoints)
    /\ \A i \in 1..Len(normalizedPoints) :
         /\ Has(normalizedPoints[i].normalizedHR) <=> Has(processedPoints[i].hr)
         /\ Has(normalizedPoints[i].normalizedPower)
              <=> Has(processedPoints[i].power)
         /\ Has(normalizedPoints[i].normalizedPace)

\* The adapter has ended, by throwing or by returning.
AdapterEnded == adapterPc \in {"failed", "returned"}

\* name is among the calls made on the Decoder.
Called(name) == \E k \in 1..Len(decoderCalls) : decoderCalls[k] = name

\* The FIT adapter checks integrity before it reads, and when the check
\* has failed read is never called, no Activity is returned and the parse
\* has ended with the error given.
IntegrityCheckedFirst(error) ==
  format = "fit" =>
    /\ Called("read") =>
         decoderCalls[1] = "checkIntegrity" /\ document.integrity
    /\ (Called("checkIntegrity") /\ ~document.integrity) =>
         /\ adapterPc = "failed"
         /\ thrown = Some(error)
         /\ ~Called("read")
         /\ parsed = Undefined

LinesOf(feature) ==
  IF feature.geometry.type = "LineString"
  THEN << feature.geometry.coordinates >>
  ELSE IF feature.geometry.type = "MultiLineString"
  THEN feature.geometry.coordinates
  ELSE << >>

\* The document parses but holds no sample with a position: no coordinate
\* in a line of the GeoJSON; no record with a latitude and a longitude under
\* any spelling; no Trackpoint whose Position has both degrees.
NoSample ==
  CASE format = "gpx" ->
         \A k \in 1..Len(document.geoJson.features) :
           \A l \in 1..Len(LinesOf(document.geoJson.features[k])) :
             Len(LinesOf(document.geoJson.features[k])[l]) = 0
    [] format = "fit" ->
         /\ document.integrity
         /\ Has(document.messages.recordMesgs) =>
              \A k \in 1..Len(Val(document.messages.recordMesgs)) :
                LET r == Val(document.messages.recordMesgs)[k]
                IN ~(/\ (Has(r.positionLat) \/ Has(r.position_lat)
                           \/ Has(r.enhancedLatitude))
                     /\ (Has(r.positionLong) \/ Has(r.position_long)
                           \/ Has(r.enhancedLongitude)))
    [] format = "tcx" ->
         Has(document.activities) =>
           \A l \in 1..Len(FirstActivity(document).Lap) :
             LET lap == FirstActivity(document).Lap[l]
             IN Has(lap.Track) =>
                  \A k \in 1..Len(Val(lap.Track).Trackpoint) :
                    LET tp == Val(lap.Track).Trackpoint[k]
                    IN ~(/\ Has(tp.Position)
                         /\ Has(Val(tp.Position).LatitudeDegrees)
                         /\ Has(Val(tp.Position).LongitudeDegrees))
    [] OTHER -> FALSE

\* The messages of the errors thrown for a document without track data.
NoTrackDataMessages ==
  CASE format = "gpx" -> {"No tracks found in GPX file",
                          "No valid track points found in GPX file"}
    [] format = "fit" -> {"No valid track points found in FIT file"}
    [] format = "tcx" -> {"No activities found in TCX file",
                          "No valid track points found in TCX file"}
    [] OTHER -> {}

\* An adapter that has ended on a document without a sample has thrown an
\* error of the name given and returned no Activity; an Activity returned
\* has at least one point.
FailsWithoutTrackData(errorName) ==
  AdapterEnded =>
    /\ NoSample =>
         /\ adapterPc = "failed"
         /\ parsed = Undefined
         /\ Has(thrown)
         /\ Val(thrown).name = errorName
         /\ Val(thrown).message \in NoTrackDataMessages
    /\ Has(parsed) =>
         /\ Len(Val(parsed).points) >= 1
         /\ thrown = Undefined
         /\ adapterPc = "returned"

InRange(point) ==
  /\ -Num(90) <= point.lat /\ point.lat <= Num(90)
  /\ -Num(180) <= point.lng /\ point.lng <= Num(180)

\* C14: every Point of every Activity returned by any of the three adapters
\* has latitude in [-90, 90] and longitude in [-180, 180]: a sample whose
\* coordinates fall outside is dropped and never appears in activity.points.
C14_CoordinatesInRange ==
  Has(parsed) =>
    \A k \in 1..Len(Val(parsed).points) : InRange(Val(parsed).points[k])

ActivityFields ==
  {"name", "date", "points", "totalDistance", "totalElevationGain",
   "totalTime", "averagePace", "averageHR", "maxHR", "bounds"}

\* The ProcessedActivity returned carries the input's own fields.
CarriesActivity ==
  pc = "returned" =>
    \A f \in ActivityFields : Val(result)[f] = activity[f]

\* C15: processActivity leaves its input unchanged: no statement of it
\* changes the Activity or a Point of it, and the returned ProcessedActivity
\* carries name, date, points, totalDistance, totalElevationGain, totalTime,
\* averagePace, averageHR, maxHR and bounds equal to the input's.
C15_InputUnchanged ==
  /\ [][activity' = activity]_vars
  /\ []CarriesActivity

\* C15's case: processActivity has returned for a track of several points
\* with splits.
C15_Witness ==
  /\ pc = "returned"
  /\ Len(activity.points) >= 3
  /\ Len(Val(result).splits) >= 1
  /\ Val(result).points = activity.points

PairDistance(points, i, j) == points[j + 1].distance - points[i + 1].distance

\* The grade from point i to point j (0-based):
\* elevationGain / segmentDistance * 100, the gain being ele[j] - ele[i]
\* when both points have an elevation, and 0 otherwise.
PairGrade(points, i, j) ==
  IF /\ Has(points[i + 1].ele)
     /\ Has(points[j + 1].ele)
     /\ PairDistance(points, i, j) > 0
  THEN ClimbGrade(Val(points[j + 1].ele) - Val(points[i + 1].ele),
                  PairDistance(points, i, j))
  ELSE 0

\* The pairs the scan examines whose distance is at least minDistance.
Qualifying(points) ==
  {pair \in (0..(Len(points) - 1)) \X (0..(Len(points) - 1)) :
     /\ InSearchWindow(points, pair[1], pair[2])
     /\ PairDistance(points, pair[1], pair[2]) >= Num(100)}

\* first comes no later than second in scan order.
ScannedFirst(first, second) ==
  \/ first[1] < second[1]
  \/ first[1] = second[1] /\ first[2] <= second[2]

\* C17: when findSteepestClimb returns a segment, its grade is
\* elevationGain / segmentDistance * 100 for its (startIndex, endIndex), is
\* strictly positive, and is the maximum grade over all pairs (i, j) that
\* the scan examines and whose distance is >= minDistance; among the pairs
\* of that grade it is the one first in scan order.
C17_SteepestIsMaximum ==
  (ClimbDone /\ Has(steepestClimb)) =>
    LET found == << Val(steepestClimb).startIndex,
                    Val(steepestClimb).endIndex >>
        grade == Val(steepestClimb).grade
    IN /\ found \in Qualifying(normalizedPoints)
       /\ grade = PairGrade(normalizedPoints, found[1], found[2])
       /\ grade > 0
       /\ \A pair \in Qualifying(normalizedPoints) :
            /\ PairGrade(normalizedPoints, pair[1], pair[2]) <= grade
            /\ PairGrade(normalizedPoints, pair[1], pair[2]) = grade
                 => ScannedFirst(found, pair)

\* The segment returned by findSteepestClimb(points, 100) runs forward over
\* the distance it states, which is at least minDistance.
ClimbSegmentShape ==
  /\ Val(steepestClimb).startIndex < Val(steepestClimb).endIndex
  /\ Val(steepestClimb).endIndex < Len(normalizedPoints)
  /\ Val(steepestClimb).distance =
       PairDistance(normalizedPoints, Val(steepestClimb).startIndex,
                    Val(steepestClimb).endIndex)
  /\ Val(steepestClimb).distance >= Num(100)

\* C18 as claimed: every segment returned by findSteepestClimb(points,
\* minDistance) has startIndex < endIndex and a distance of at least
\* minDistance and under the cap of 2 * minDistance.
C18_ClimbUnderCap ==
  (ClimbDone /\ Has(steepestClimb)) =>
    /\ ClimbSegmentShape
    /\ Val(steepestClimb).distance < Num(100) * 2

\* C18 as amended: startIndex < endIndex and a distance of at least
\* minDistance; under the cap is the distance up to the point before
\* endIndex (when the segment is longer than one step), the segment itself
\* may pass the cap with its last step.
C18_ClimbWithinWindow ==
  (ClimbDone /\ Has(steepestClimb)) =>
    /\ ClimbSegmentShape
    /\ InSearchWindow(normalizedPoints, Val(steepestClimb).startIndex,
                      Val(steepestClimb).endIndex)

\* C18's case: a segment of several steps whose last step takes it past the
\* cap.
C18_Witness ==
  /\ ClimbDone
  /\ Has(steepestClimb)
  /\ Val(steepestClimb).endIndex > Val(steepestClimb).startIndex + 1
  /\ Val(steepestClimb).distance >= Num(100) * 2

\* The raw grade of index i (0-based, i > 0) with every elevation value
\* counted as present, 0 included.
GradeOfPresent(points, i) ==
  LET segmentDistance == haversineDistance(points[i], points[i + 1])
  IN IF /\ segmentDistance > 0
        /\ Has(points[i].ele)
        /\ Has(points[i + 1].ele)
     THEN Quot(Val(points[i + 1].ele) - Val(points[i].ele), segmentDistance) * 100
     ELSE 0

\* The grade of processed[i] (0-based) is the trailing average of the raw
\* grade given and the grades before it.
GradeSmoothedFrom(processed, i, grade) ==
  processed[i + 1].grade =
    smoothValue(SubSeq(processed, 1, i), i, "grade", grade, 5)

\* C19: for i > 0 the raw grade computeMetrics smooths is (ele[i] -
\* ele[i-1]) / segmentDistance * 100 whenever segmentDistance > 0 and both
\* points have an elevation, an elevation of 0 included, and 0 otherwise.
C19_RawGradeCountsZeroElevation ==
  Computed =>
    \A i \in 1..(Len(activity.points) - 1) :
      /\ RawOf(activity.points, i).grade = GradeOfPresent(activity.points, i)
      /\ GradeSmoothedFrom(processedPoints, i, GradeOfPresent(activity.points, i))

\* The sum of processed[k][field] over the indices k (0-based) of from..to-1.
RECURSIVE SmoothedBefore(_, _, _, _)
SmoothedBefore(processed, field, from, to) ==
  IF from >= to THEN 0
  ELSE processed[to][field] + SmoothedBefore(processed, field, from, to - 1)

\* processed[i][field] (0-based) is the raw value of index i averaged with
\* the smoothed values of the h indices before it, as many as there are.
TrailingAverage(processed, field, raw, h, i) ==
  processed[i + 1][field] =
    IF i = 0 THEN raw
    ELSE (raw + SmoothedBefore(processed, field, Max(0, i - h), i))
           \div (Min(i, h) + 1)

\* C20: the smoothed pace (h = 5) and the smoothed grade (h = 2) at index i
\* are (raw value at i + sum of the smoothed values at max(0, i-h)..i-1) /
\* (min(i, h) + 1); at index 0 the raw value is returned unchanged; nothing
\* past index i enters the value at i: the values up to the last point are
\* those of the track without it. Stated of the points computeMetrics has
\* just returned.
C20_TrailingAverage ==
  pc = "normalizeMetrics" =>
    \A i \in 0..(Len(processedPoints) - 1) :
      /\ i = Len(processedPoints) - 1 =>
           SubSeq(processedPoints, 1, i) =
             computeMetrics(SubSeq(activity.points, 1, i))
      /\ TrailingAverage(processedPoints, "pace",
                         RawOf(activity.points, i).pace, 5, i)
      /\ TrailingAverage(processedPoints, "grade",
                         RawOf(activity.points, i).grade, 2, i)

\* C20's case: a track long enough for the pace window to leave its first
\* value behind, the value dropped differing from the ones kept.
C20_Witness ==
  /\ pc = "normalizeMetrics"
  /\ Len(processedPoints) > 6
  /\ processedPoints[1].pace # processedPoints[7].pace
  /\ processedPoints[2].pace # 0

\* C20's other case: a climbing track whose grade window has left its first
\* value behind.
C20_GradeWindowMoves ==
  /\ pc = "normalizeMetrics"
  /\ Len(processedPoints) > 3
  /\ processedPoints[2].grade # 0
  /\ processedPoints[4].grade # processedPoints[2].grade

\* The index (1-based) of the point at which the k-th split closed: the first
\* point at the cumulative distance the split closed at.
ClosingIndex(k) ==
  CHOOSE i \in 1..Len(normalizedPoints) :
    /\ normalizedPoints[i].distance = ClosedAt(k)
    /\ \A j \in 1..(i - 1) : normalizedPoints[j].distance < ClosedAt(k)

\* The indices (1-based) of the slice of the k-th split: from the point that
\* closed the split before it (the first point of the track for the first
\* split) to the point that closed it.
SliceIndices(k) ==
  (IF k = 1 THEN 1 ELSE ClosingIndex(k - 1))..ClosingIndex(k)

\* The points of the k-th split's slice that carry a heart rate.
CarryingHR(k) == {i \in SliceIndices(k) : Has(normalizedPoints[i].hr)}

\* The sum of the heart rates carried in the k-th split's slice.
CarriedHR(k) ==
  SumSeq([i \in 1..Len(normalizedPoints) |->
            IF i \in CarryingHR(k) THEN Val(normalizedPoints[i].hr) ELSE 0],
         0, Len(normalizedPoints))

\* C21: the averageHR of every Split emitted by detectSplits is the average
\* heart rate over the points of its slice that carry one (a point without
\* heart rate is not counted as 0 bpm), and is absent exactly when no point
\* of the slice carries a heart rate.
C21_SplitAverageHR ==
  SplitsDone =>
    \A k \in 1..Len(splits) :
      IF CarryingHR(k) = {}
      THEN splits[k].averageHR = Undefined
      ELSE /\ Has(splits[k].averageHR)
           /\ Val(splits[k].averageHR) =
                CarriedHR(k) \div Cardinality(CarryingHR(k))

\* The first of the candidates a, b, c that is present, a value of 0
\* included; absent when none is.
FirstPresent(a, b, c) == IF Has(a) THEN a ELSE IF Has(b) THEN b ELSE c

\* The Point of a record with each field taken from its first present
\* candidate name.
PointOfFirstPresent(record) ==
  Point(convertSemicirclesToDegrees(
          FirstPresent(record.positionLat, record.position_lat,
                       record.enhancedLatitude)),
        convertSemicirclesToDegrees(
          FirstPresent(record.positionLong, record.position_long,
                       record.enhancedLongitude)),
        FirstPresent(record.altitude, record.enhancedAltitude,
                     record.enhanced_altitude),
        record.timestamp,
        FirstPresent(record.heartRate, record.heart_rate, Undefined),
        record.cadence,
        record.power,
        record.temperature)

\* A candidate name of the record supplies a latitude, and one a longitude.
HasPosition(record) ==
  /\ Has(FirstPresent(record.positionLat, record.position_lat,
                      record.enhancedLatitude))
  /\ Has(FirstPresent(record.positionLong, record.position_long,
                      record.enhancedLongitude))

\* The records the Decoder has read.
RecordsRead ==
  IF Has(document.messages.recordMesgs)
  THEN Val(document.messages.recordMesgs)
  ELSE << >>

\* C22: in the FIT adapter each field of a record takes the value of the
\* first candidate name that is present, a value of 0 included: the points
\* collected are those of the records with a latitude and a longitude under
\* some candidate name, in order, a record at latitude 0 or longitude 0
\* among them.
C22_FirstPresentCandidate ==
  (format = "fit" /\ Called("read")) =>
    parsedPoints =
      SelectSeq([i \in 1..Len(RecordsRead) |->
                   PointOfFirstPresent(RecordsRead[i])],
                LAMBDA point : ~isNaN(point.lat) /\ ~isNaN(point.lng))

\* The laps of the TCX document's first activity.
LapsOf(doc) == FirstActivity(doc).Lap

\* The document declares no total of its own: a GPX document never does; a
\* FIT document has no session message, or one without distance and times;
\* a TCX document has no lap that declares a distance or a time.
NoAuthoritativeTotals ==
  CASE format = "gpx" -> TRUE
    [] format = "fit" ->
         LET session == SessionMessage(document.messages)
         IN Has(session) =>
              /\ ~Has(Val(session).totalDistance)
              /\ ~Has(Val(session).totalElapsedTime)
              /\ ~Has(Val(session).totalTimerTime)
    [] format = "tcx" ->
         \A l \in 1..Len(LapsOf(document)) :
           /\ ~Has(LapsOf(document)[l].DistanceMeters)
           /\ ~Has(LapsOf(document)[l].TotalTimeSeconds)

\* The sum of the geodesic distances between consecutive points.
GeodesicLength(points) ==
  SumSeq([i \in 1..(Len(points) - 1) |->
            haversineDistance(points[i], points[i + 1])],
         0, Len(points) - 1)

\* The last timestamp minus the first, in seconds; 0 when one is missing.
LastMinusFirst(points) ==
  IF Has(points[1].time) /\ Has(points[Len(points)].time)
  THEN ((Val(points[Len(points)].time) - Val(points[1].time)) * Scale) \div 1000
  ELSE 0

\* C23: whichever adapter returns it, the Activity of a document without
\* authoritative totals has totalTime = last timestamp minus first
\* timestamp, totalDistance = sum of the consecutive geodesic distances, and
\* averagePace = totalTime / totalDistance, time per one unit of distance,
\* in the same unit in all three adapters.
C23_RecomputedTotals ==
  (adapterPc = "returned" /\ NoAuthoritativeTotals) =>
    LET a == Val(parsed)
    IN /\ a.totalTime = LastMinusFirst(a.points)
       /\ a.totalDistance = GeodesicLength(a.points)
       /\ (a.totalTime > 0 /\ a.totalDistance > 0) =>
            a.averagePace = Quot(a.totalTime, a.totalDistance)

\* max(0, ele[i] - ele[i-1]) of the pair ending at point i (1-based, i > 1)
\* when both points have an elevation, an elevation of 0 included; 0 when
\* one has none.
RiseAt(points, i) ==
  IF Has(points[i].ele) /\ Has(points[i - 1].ele)
  THEN Max(0, Val(points[i].ele) - Val(points[i - 1].ele))
  ELSE 0

\* The sum of the rises over all consecutive pairs of points.
SumOfRises(points) ==
  SumSeq([i \in 1..(Len(points) - 1) |-> RiseAt(points, i + 1)],
         0, Len(points) - 1)

\* The document declares no ascent of its own (a FIT session may).
NoDeclaredAscent ==
  format = "fit" =>
    LET session == SessionMessage(document.messages)
    IN Has(session) => ~Has(Val(session).totalAscent)

\* C24: the recomputed totalElevationGain of an Activity is the sum, over
\* the consecutive pairs of points that both have an elevation, of max(0,
\* ele[i] - ele[i-1]): never negative, never reduced by a descent, and with
\* the rises that start from or end at elevation 0 counted.
C24_ElevationGainSumsRises ==
  (adapterPc = "returned" /\ NoDeclaredAscent) =>
    /\ Val(parsed).totalElevationGain = SumOfRises(Val(parsed).points)
    /\ Val(parsed).totalElevationGain >= 0

\* The laps of the document that declare field.
Declaring(field) ==
  {l \in 1..Len(LapsOf(document)) : Has(LapsOf(document)[l][field])}

\* The sum of what the laps declare for field.
DeclaredTotal(field) ==
  SumSeq([l \in 1..Len(LapsOf(document)) |->
            IF l \in Declaring(field) THEN Val(LapsOf(document)[l][field])
            ELSE 0],
         0, Len(LapsOf(document)))

C25_RecomputedCase ==
  /\ format = "tcx"
  /\ adapterPc = "returned"
  /\ Declaring("DistanceMeters") = {}
  /\ Declaring("TotalTimeSeconds") = {}
  /\ Val(parsed).totalDistance > 0
  /\ Val(parsed).totalTime > 0

\* C26: every point of an Activity returned by an adapter lies inside the
\* Activity's bounds, minLat <= lat <= maxLat and minLng <= lng <= maxLng,
\* the first point included, and the bounds of a single-point Activity are
\* finite.
C26_PointsInsideBounds ==
  adapterPc = "returned" =>
    LET a == Val(parsed)
    IN /\ \A i \in 1..Len(a.points) :
            /\ a.bounds.minLat <= a.points[i].lat
            /\ a.points[i].lat <= a.bounds.maxLat
            /\ a.bounds.minLng <= a.points[i].lng
            /\ a.points[i].lng <= a.bounds.maxLng
       /\ {a.bounds.minLat, a.bounds.maxLat, a.bounds.minLng, a.bounds.maxLng}
            \cap {Infinity, NegInfinity} = {}

\* The points (1-based indices) of the Activity returned that carry a heart
\* rate.
PointsWithHR ==
  {i \in 1..Len(Val(parsed).points) : Has(Val(parsed).points[i].hr)}

\* The sum of the heart rates the points of the Activity returned carry.
SumOfHR ==
  SumSeq([i \in 1..Len(Val(parsed).points) |->
            IF i \in PointsWithHR THEN Val(Val(parsed).points[i].hr) ELSE 0],
         0, Len(Val(parsed).points))

\* The heart-rate totals are recomputed from the points: by the TCX adapter
\* always, by the FIT adapter when no session message declares them.
HeartRateRecomputed ==
  \/ format = "tcx"
  \/ /\ format = "fit"
     /\ LET session == SessionMessage(document.messages)
        IN Has(session) =>
             /\ ~Has(Val(session).avgHeartRate)
             /\ ~Has(Val(session).maxHeartRate)

\* C27: when the heart-rate totals are recomputed from the points, maxHR is
\* the maximum heart rate over all the points, the first included, averageHR
\* is the mean over the points that carry a heart rate, and both are absent
\* exactly when no point carries one.
C27_HeartRateTotals ==
  (adapterPc = "returned" /\ HeartRateRecomputed) =>
    LET a == Val(parsed)
    IN IF PointsWithHR = {}
       THEN a.maxHR = Undefined /\ a.averageHR = Undefined
       ELSE /\ Has(a.maxHR)
            /\ Has(a.averageHR)
            /\ \E i \in PointsWithHR : a.points[i].hr = a.maxHR
            /\ \A i \in PointsWithHR : Val(a.points[i].hr) <= Val(a.maxHR)
            /\ Val(a.averageHR) = SumOfHR \div Cardinality(PointsWithHR)

\* C28: the splits lie on the fixed distance grid: the k-th Split (index k,
\* counted from 0) closes at the first point whose cumulative distance from
\* the start of the activity is >= (k+1) * splitDistance, whatever the
\* spacing of the points.
C28_SplitsOnGrid ==
  SplitsDone =>
    \A k \in 1..Len(splits) :
      /\ splits[k].index = k - 1
      /\ ClosedAt(k) >= k * Num(1000)
      /\ \A i \in 1..Len(normalizedPoints) :
           normalizedPoints[i].distance >= k * Num(1000) =>
             normalizedPoints[i].distance >= ClosedAt(k)

\* The index (1-based) of the point the k-th split's slice starts at: the
\* first point of the track, or the point that closed the split before.
SliceStart(k) == IF k = 1 THEN 1 ELSE ClosingIndex(k - 1)

\* The k-th split spans the points from SliceStart(k) to ClosingIndex(k),
\* both included: its time runs from the one to the other and its pace is
\* the mean over all of them.
SpansSlice(k) ==
  LET points == normalizedPoints
      from == SliceStart(k)
      to == ClosingIndex(k)
  IN /\ from < to
     /\ splits[k].time =
          IF Has(points[from].time) /\ Has(points[to].time)
          THEN ((Val(points[to].time) - Val(points[from].time)) * Scale)
                 \div 1000
          ELSE 0
     /\ splits[k].pace =
          SumSeq([i \in 1..Len(points) |-> points[i].pace], from - 1, to)
            \div (to - from + 1)

\* C29: the splits of detectSplits(points, splitDistance) carry the indices
\* 0, 1, ..., n-1 in the order they were emitted; each split's distance is
\* >= splitDistance; the slice of a split starts at the point where the
\* slice of the split before it ends; and the split distances sum to no more
\* than the cumulative distance of the last point. Stated of the splits
\* detectSplits has just returned.
C29_SplitsInOrder ==
  pc = "findFastestSplit" =>
    /\ \A k \in 1..Len(splits) :
         /\ splits[k].index = k - 1
         /\ splits[k].distance >= Num(1000)
         /\ SpansSlice(k)
    /\ Len(splits) > 0 =>
         ClosedAt(Len(splits)) <=
           normalizedPoints[Len(normalizedPoints)].distance

\* C29's case: several splits in a row, timed, each at its own pace.
C29_Witness ==
  /\ pc = "findFastestSplit"
  /\ Len(splits) >= 3
  /\ splits[1].pace # splits[2].pace
  /\ splits[2].time > 0
  /\ splits[3].time > splits[2].time

\* C30: in the Studio's upload flow at most one call of processFile is in
\* flight at any time; isProcessing is true in every state in which a parse
\* is still running; and once nothing is running the activity displayed is
\* the one of the last file submitted.
C30_OneParseInFlight ==
  /\ Cardinality(inFlight) <= 1
  /\ inFlight # {} => isProcessing
  /\ (inFlight = {} /\ Has(studioActivity)) =>
       Val(studioActivity).file = Len(submitted)

====
